---- MODULE Spec2Model ----
(***************************************************************************)
(* A model of cursor_agent_api.py.                                         *)
(*                                                                         *)
(* Spec: the cancellable streaming process, StreamingResponse (the         *)
(* "LiveStream" of the specification), the child process it owns, and a    *)
(* single-threaded consumer that iterates it, cancels it and uses it as a  *)
(* context manager.                                                        *)
(* QuerySpec: CursorAgentClient.query applied to every outcome of the      *)
(* process invocation.                                                     *)
(* SessionSpec: ConversationSession, its token and history under send,     *)
(* send_stream, finalize_stream and reset.                                 *)
(* Each specification moves its own variables and holds the others still.  *)
(***************************************************************************)
EXTENDS Integers, Sequences, FiniteSets, TLC

\* ------------------------------------------------------------------ bounds
\* The process writes at most MaxLines lines to its output.
MaxLines == 3
\* The consumer starts at most MaxIters iterations (generators) of one stream.
MaxIters == 2
\* The consumer calls cancel() at most MaxCancels times.
MaxCancels == 2

\* --------------------------------------------------------- program constants
\* cancel(self, signal: int = 15)
SIGTERM == 15
\* the signal the docstring of cancel names as the stronger one
SIGKILL == 9
\* self._process.wait(timeout=2)
CancelTimeout == 2

VARIABLES
    procState,    \* the child process: "running", "exited" (not yet waited on), "reaped"
    stdoutClosed, \* the process has closed its output (end of file follows the last line)
    exitCause,    \* why the process exited: "none", "self", "signal", "kill"
    written,      \* every line the process has written to its output, in order
    nread,        \* how many of them the iteration has read from process.stdout
    plog,         \* the calls made on the Popen object: send_signal, wait, kill
    _cancelled,   \* StreamingResponse._cancelled
    _events,      \* StreamingResponse._events
    gen,          \* the state of each generator made by __iter__
    active,       \* the generator the consumer is blocked in (next()), 0 when it holds control
    delivered,    \* the events the consumer has received from next(), in order
    scope,        \* the with-block: "none", "inside", then how it was left
    ncancel,      \* the number of cancel() calls the consumer has made
    sigArg,       \* the signal argument of the consumer's last cancel() call, 0 before
    atCancel      \* Len(delivered) when the cancelled flag was set, -1 before

vars == <<procState, stdoutClosed, exitCause, written, nread, plog, _cancelled,
          _events, gen, active, delivered, scope, ncancel, sigArg, atCancel>>

procVars == <<procState, stdoutClosed, exitCause, written>>
iterVars == <<nread, _events, gen, active, delivered>>

VARIABLES
    qsid,         \* query: the session_id argument
    qrun,         \* query: what subprocess.run does (raises, or the completed process)
    qret          \* query: what the call returned or raised, "pending" before it ran

queryVars == <<qsid, qrun, qret>>

VARIABLES
    _session_id,  \* ConversationSession._session_id
    _history,     \* ConversationSession._history
    stream,       \* the events accumulated by the stream send_stream returned last
    callOp,       \* the last method called on the session, "none" before
    callPrompt,   \* its prompt argument
    callArg,      \* the session_id it passed to the client
    callRet,      \* what it returned
    observed      \* the last non-empty token a send returned or a finalized stream
                  \* carried since construction or reset (the constructor's before)

sessionVars == <<_session_id, _history, stream, callOp, callPrompt, callArg,
                 callRet, observed>>

VARIABLES
    pdata,        \* _parse_event: the JSON object json.loads gave for the line
    pev           \* _parse_event: the events returned for it, one per call

decodeVars == <<pdata, pev>>

VARIABLES
    config,       \* CursorAgentClient.config
    cmdArgs,      \* the arguments of the last call of _build_command
    cmd,          \* the list it returned
    ncalls,       \* the number of calls of query and query_stream so far
    procs,        \* per call, the processes launched for it
    launch        \* the last launch: how, with which argv, with which input

clientVars == <<config, cmdArgs, cmd, ncalls, procs, launch>>

VARIABLES
    nsubmit,      \* AsyncCursorAgentClient: units handed to the executor so far
    pending,      \* the executor's work queue
    working,      \* the units a worker thread is executing, by kind
    orphans       \* processes alive whose unit has ended

asyncVars == <<nsubmit, pending, working, orphans>>

VARIABLES
    ipc,          \* __iter__ run by one thread while another calls cancel: where
                  \* the iterating thread is
    iline         \* the line it holds

raceVars == <<ipc, iline>>

VARIABLES
    cevents,      \* collect_text: the events argument
    ctext         \* what it returned, per value of include_thinking

collectVars == <<cevents, ctext>>

VARIABLES
    ustate,       \* AsyncCursorAgentClient.query, per unit: where the unit is
    uproc,        \* the process its subprocess.run launched, 0 before
    uret,         \* what its await gave
    queue,        \* the executor's work queue, as units
    exits         \* what each process launched did

poolVars == <<ustate, uproc, uret, queue, exits>>

VARIABLES
    cbsource,     \* _stream: the events the stream has still to yield
    callback,     \* the callback argument: None, or how the callable behaves
    cbevents,     \* the local list `events`
    cblog,        \* the pulls from the stream and the calls of the callback
    cbret         \* what _stream returned or raised

callbackVars == <<cbsource, callback, cbevents, cblog, cbret>>

VARIABLES
    sends,        \* AsyncConversationSession.send, per call: where it is
    completions   \* the calls that have returned, in the order they did

asendVars == <<sends, completions>>

extraVars == <<raceVars, collectVars, poolVars, callbackVars, asendVars>>

laterVars == <<decodeVars, clientVars, asyncVars, extraVars>>

\* the variables the stream specification holds still
otherVars == <<queryVars, sessionVars, laterVars>>

\* ------------------------------------------------------------------- lines
\* The lines of process output, without their line terminator: a line of
\* whitespace only, a line that is not JSON, a JSON line whose value is not an
\* object, and two JSON objects.
Lines == {"   ", "not valid json", "5", "{A}", "{B}"}

\* str.strip() on a line or on the captured output
strip(line) ==
    CASE line = "   "      -> ""
      [] line = "  oops  " -> "oops"
      [] OTHER             -> line

\* json.loads(text): what the text decodes to
json_loads(text) ==
    CASE text = "not valid json" -> "JSONDecodeError"
      [] text = "oops"           -> "JSONDecodeError"
      [] text = ""               -> "JSONDecodeError"
      [] text = "5"              -> "int"
      [] OTHER                   -> "dict"

\* CursorAgentClient._parse_event(line): None for text that is not JSON, an
\* AgentEvent for a JSON object; data.get on a value that is no object raises.
parse_event(line) ==
    LET data == json_loads(strip(line))
    IN  CASE data = "JSONDecodeError" -> [tag |-> "None", data |-> ""]
          [] data = "int"             -> [tag |-> "AttributeError", data |-> ""]
          [] OTHER                    -> [tag |-> "AgentEvent", data |-> strip(line)]

\* The events a sequence of lines decodes to: one per line that strips to
\* non-empty text and parses to an event, in order.
RECURSIVE Decode(_)
Decode(ls) ==
    IF ls = <<>> THEN <<>>
    ELSE LET r == parse_event(Head(ls))
         IN  (IF strip(Head(ls)) # "" /\ r.tag = "AgentEvent"
              THEN <<[data |-> r.data]>> ELSE <<>>) \o Decode(Tail(ls))

\* process.stdout as the iteration sees it: the lines written and not yet read
pipe == SubSeq(written, nread + 1, Len(written))

Gens == 1..MaxIters

\* ------------------------------------------------------------------ values
\* Python's None
None == "None"

\* the truth value Python gives a value in `if v` and `v or w`
Truthy(v) == v \notin {None, "", "False"}

\* AgentResult(success, result, session_id, error=..., events=...); request_id
\* and the durations are carried through unread and are left out.
AgentResult(success, result, session_id, error, events) ==
    [tag |-> "AgentResult", success |-> success, result |-> result,
     session_id |-> session_id, error |-> error, events |-> events]

\* a call that ends by raising exc instead of returning
Raised(exc) ==
    [tag |-> "raise", success |-> FALSE, result |-> "", session_id |-> "",
     error |-> exc, events |-> <<>>]

\* a call that has not been made yet
Pending ==
    [tag |-> "pending", success |-> FALSE, result |-> "", session_id |-> "",
     error |-> None, events |-> <<>>]

\* a call that returned None
ReturnedNone ==
    [tag |-> "None", success |-> FALSE, result |-> "", session_id |-> "",
     error |-> None, events |-> <<>>]

\* the session_id arguments of query: None, the empty string, a token
SessionIdArgs == {None, "", "s0"}

\* What the process can leave on its output channel: nothing, text that is not
\* JSON (with white space around it), a JSON value that is no object, and
\* result payloads.
PayloadOk      == "{subtype: success, result: 4, session_id: s1}"
PayloadError   == "{subtype: error, is_error: true, error: bad, result: no, session_id: s2}"
PayloadNoToken == "{subtype: success, error: ignored}"
PayloadWarned  == "{subtype: success, is_error: true, error: warned, result: 4}"
PayloadFlagged == "{subtype: error, is_error: true}"
Stdouts ==
    {"", "  oops  ", "5", PayloadOk, PayloadError, PayloadNoToken,
     PayloadWarned, PayloadFlagged}

\* the object json.loads gives for a payload text
json_object(text) ==
    CASE text = PayloadOk ->
            [subtype |-> "success", result |-> "4", session_id |-> "s1"]
      [] text = PayloadError ->
            [subtype |-> "error", is_error |-> "True", error |-> "bad",
             result |-> "no", session_id |-> "s2"]
      [] text = PayloadWarned ->
            [subtype |-> "success", is_error |-> "True", error |-> "warned",
             result |-> "4"]
      [] text = PayloadFlagged ->
            [subtype |-> "error", is_error |-> "True"]
      [] OTHER ->
            [subtype |-> "success", error |-> "ignored"]

\* dict.get(key, default)
Get(data, key, default) == IF key \in DOMAIN data THEN data[key] ELSE default

\* What subprocess.run does: it raises (the binary cannot be launched, the
\* timeout expires) or returns the completed process.
Runs ==
    {[kind |-> "raises", exc |-> e, returncode |-> 0, stdout |-> "", stderr |-> ""] :
        e \in {"FileNotFoundError", "TimeoutExpired"}}
    \cup
    {[kind |-> "completed", exc |-> "none", returncode |-> rc, stdout |-> out,
      stderr |-> err] : rc \in {0, 1, 2}, out \in Stdouts, err \in {"", "boom"}}

\* str(e) of an exception
str(exc) ==
    CASE exc = "FileNotFoundError" -> "[Errno 2] No such file or directory: 'agent'"
      [] exc = "AttributeError"    -> "'int' object has no attribute 'get'"
      [] OTHER                     -> exc

\* f"Exit code: {result.returncode}"
ExitCodeMessage(rc) ==
    CASE rc = 1 -> "Exit code: 1"
      [] rc = 2 -> "Exit code: 2"
      [] OTHER  -> "Exit code: 0"

\* f"Failed to parse JSON: {e}"
ParseErrorMessage == "Failed to parse JSON: Expecting value"

\* ---------------------------------------------------------------- Init
\* the query variables while no query is modelled
QueryIdle ==
    /\ qsid = None
    /\ qrun = [kind |-> "raises", exc |-> "TimeoutExpired", returncode |-> 0,
               stdout |-> "", stderr |-> ""]
    /\ qret = Pending

\* the session variables while no session is modelled
SessionIdle ==
    /\ _session_id = None
    /\ _history = <<>>
    /\ stream = [made |-> FALSE, events |-> <<>>]
    /\ callOp = "none"
    /\ callPrompt = ""
    /\ callArg = None
    /\ callRet = Pending
    /\ observed = None

\* AgentConfig(): the defaults of the dataclass
DefaultConfig ==
    [agent_binary |-> "agent", workspace |-> None, model |-> None,
     force_approve |-> FALSE, approve_mcps |-> FALSE, api_key |-> None,
     headers |-> <<>>]

\* a key the JSON object does not have
Absent == "absent"

\* no call of _build_command yet; no launch yet
NoArgs ==
    [prompt |-> "", session_id |-> None, output_format |-> "json",
     stream_partial |-> FALSE, mode |-> None]
NoLaunch ==
    [via |-> "none", argv |-> <<>>, stdin |-> "", outcome |-> "none",
     ops |-> <<>>]

\* the empty JSON object
EmptyObject ==
    [type |-> Absent, subtype |-> Absent, timestamp_ms |-> Absent,
     text |-> Absent, result |-> Absent, session_id |-> Absent,
     message |-> [kind |-> Absent, content |-> [kind |-> Absent, items |-> <<>>]]]

\* the unit kinds of the executor
UnitKinds == {"query", "query_stream"}

\* the decoder, the client and the executor while they are not modelled
DecodeIdle ==
    /\ pdata = EmptyObject
    /\ pev = <<>>

ClientIdle ==
    /\ config = DefaultConfig
    /\ cmdArgs = NoArgs
    /\ cmd = <<>>
    /\ ncalls = 0
    /\ procs = <<>>
    /\ launch = NoLaunch

AsyncIdle ==
    /\ nsubmit = 0
    /\ pending = <<>>
    /\ working = [k \in UnitKinds |-> 0]
    /\ orphans = 0

\* no thread inside __iter__
RaceIdle ==
    /\ ipc = "none"
    /\ iline = ""

\* collect_text not called
NotCalled == "not called"

CollectIdle ==
    /\ cevents = <<>>
    /\ ctext = [include_thinking \in BOOLEAN |-> NotCalled]

\* no unit handed to the executor
PoolIdle ==
    /\ ustate = <<>>
    /\ uproc = <<>>
    /\ uret = <<>>
    /\ queue = <<>>
    /\ exits = <<>>

\* _stream has not ended
NoReturn == [tag |-> "none", events |-> <<>>]

\* _stream not running
CallbackIdle ==
    /\ cbsource = <<>>
    /\ callback = None
    /\ cbevents = <<>>
    /\ cblog = <<>>
    /\ cbret = NoReturn

\* no send of an async session
AsendIdle ==
    /\ sends = <<>>
    /\ completions = <<>>

ExtraIdle == RaceIdle /\ CollectIdle /\ PoolIdle /\ CallbackIdle /\ AsendIdle

LaterIdle == DecodeIdle /\ ClientIdle /\ AsyncIdle /\ ExtraIdle

\* StreamingResponse.__init__ on a freshly spawned process
StreamInit ==
    /\ procState = "running"
    /\ stdoutClosed = FALSE
    /\ exitCause = "none"
    /\ written = <<>>
    /\ nread = 0
    /\ plog = <<>>
    /\ _cancelled = FALSE
    /\ _events = <<>>
    /\ gen = [g \in Gens |-> "new"]
    /\ active = 0
    /\ delivered = <<>>
    /\ scope = "none"
    /\ ncancel = 0
    /\ sigArg = 0
    /\ atCancel = -1

Init == StreamInit /\ QueryIdle /\ SessionIdle /\ LaterIdle

\* ------------------------------------------------------- the child process
\* The process writes one more line to its output.
ProcWrite(line) ==
    /\ procState = "running"
    /\ ~stdoutClosed
    /\ Len(written) < MaxLines
    /\ written' = Append(written, line)
    /\ UNCHANGED <<procState, stdoutClosed, exitCause, nread, plog, _cancelled,
                   _events, gen, active, delivered, scope, ncancel, sigArg, atCancel>>
    /\ UNCHANGED otherVars

\* The process closes its output and keeps running.
ProcClose ==
    /\ procState = "running"
    /\ ~stdoutClosed
    /\ stdoutClosed' = TRUE
    /\ UNCHANGED <<procState, exitCause, written, nread, plog, _cancelled,
                   _events, gen, active, delivered, scope, ncancel, sigArg, atCancel>>
    /\ UNCHANGED otherVars

\* The process exits on its own; its output is closed with it.
ProcExit ==
    /\ procState = "running"
    /\ procState' = "exited"
    /\ stdoutClosed' = TRUE
    /\ exitCause' = "self"
    /\ UNCHANGED <<written, nread, plog, _cancelled,
                   _events, gen, active, delivered, scope, ncancel, sigArg, atCancel>>
    /\ UNCHANGED otherVars


\* ------------------------------------------------- Popen, as the code uses it
\* Popen.poll() is None: the process has not exited
poll_is_None == procState = "running"

\* Popen.poll() and Popen.wait() collect the exit code of a process that has exited
polled(s) == IF s = "exited" THEN "reaped" ELSE s

LogSignal(sig)   == [op |-> "send_signal", arg |-> sig, res |-> "ok"]
LogWaitFor(res)  == [op |-> "wait_timeout", arg |-> CancelTimeout, res |-> res]
LogKill          == [op |-> "kill", arg |-> 0, res |-> "ok"]
LogWait          == [op |-> "wait", arg |-> 0, res |-> "ok"]

\* ------------------------------------------------ StreamingResponse.__iter__
\* What one turn of `for line in self._process.stdout` does with the line read:
\* "break" when the stream is cancelled, "skip" for a line that strips to nothing
\* or parses to no event, "raise" when the decoder raises, "yield" for an event.
LineOutcome_fatal(line) ==
    IF strip(line) = "" THEN "skip"
    ELSE IF parse_event(strip(line)).tag = "AgentEvent" THEN "yield" ELSE "raise"

LineOutcome(line) ==
    IF strip(line) = "" THEN "skip"
    ELSE CASE parse_event(strip(line)).tag = "None"           -> "skip"
           [] parse_event(strip(line)).tag = "AttributeError" -> "raise"
           [] OTHER                                           -> "yield"

\* the loop with its `if self._cancelled: break` left out
IterOutcome_unchecked(line) == LineOutcome(line)

\* the loop with the cancelled test made after the decoding instead of before
IterOutcome_late(line) ==
    IF LineOutcome(line) = "raise" THEN "raise"
    ELSE IF _cancelled THEN "break" ELSE LineOutcome(line)

IterOutcome(line) ==
    IF _cancelled THEN "break" ELSE LineOutcome(line)

\* `if not self._cancelled: self._process.wait()` after the loop
EndWaits_never == FALSE

EndWaits == ~_cancelled

\* self._events.append(event) before the yield
Appended_dropped(evs, ev) == evs

Appended(evs, ev) == Append(evs, ev)

\* The consumer calls next() on generator g: its first call starts the body of
\* __iter__, a later one resumes it after the yield. Generators are numbered in
\* the order the consumer makes them.
StartNext(g) ==
    /\ active = 0
    /\ gen[g] \in {"new", "suspended"}
    /\ \A h \in Gens : h < g => gen[h] # "new"
    /\ gen' = [gen EXCEPT ![g] = "running"]
    /\ active' = g
    /\ UNCHANGED <<procVars, nread, plog, _cancelled, _events, delivered,
                   scope, ncancel, sigArg, atCancel>>
    /\ UNCHANGED otherVars

\* One turn of the loop of generator g: it reads the next line of the output,
\* which blocks until the process has written one.
IterLine(g) ==
    /\ active = g
    /\ gen[g] = "running"
    /\ pipe # <<>>
    /\ nread' = nread + 1
    /\ LET line == pipe[1]
           out  == IterOutcome(line)
           ev   == [data |-> parse_event(strip(line)).data]
       IN  CASE out = "break" ->
                   \* leaves the loop; cancelled, so no wait
                   /\ gen' = [gen EXCEPT ![g] = "done"]
                   /\ active' = 0
                   /\ UNCHANGED <<_events, delivered>>
             [] out = "skip" ->
                   UNCHANGED <<gen, active, _events, delivered>>
             [] out = "raise" ->
                   /\ gen' = [gen EXCEPT ![g] = "raised"]
                   /\ active' = 0
                   /\ UNCHANGED <<_events, delivered>>
             [] OTHER ->
                   /\ _events' = Appended(_events, ev)
                   /\ delivered' = Append(delivered, ev)
                   /\ gen' = [gen EXCEPT ![g] = "suspended"]
                   /\ active' = 0
    /\ UNCHANGED <<procVars, plog, _cancelled, scope, ncancel, sigArg, atCancel>>
    /\ UNCHANGED otherVars

\* The loop of generator g meets the end of the output: the generator waits on
\* the process unless the stream is cancelled, and returns. wait() returns when
\* the process has exited.
IterEof(g) ==
    /\ active = g
    /\ gen[g] = "running"
    /\ pipe = <<>>
    /\ stdoutClosed
    /\ IF EndWaits
       THEN /\ procState' = "reaped"
            /\ exitCause' = (IF procState = "running" THEN "self" ELSE exitCause)
            /\ plog' = Append(plog, LogWait)
       ELSE UNCHANGED <<procState, exitCause, plog>>
    /\ gen' = [gen EXCEPT ![g] = "done"]
    /\ active' = 0
    /\ UNCHANGED <<stdoutClosed, written, nread, _cancelled, _events, delivered,
                   scope, ncancel, sigArg, atCancel>>
    /\ UNCHANGED otherVars

\* The consumer leaves a for loop over generator g early (break) or drops the
\* generator: it is closed at its yield, and __iter__ has no cleanup to run.
Break(g) ==
    /\ active = 0
    /\ gen[g] = "suspended"
    /\ gen' = [gen EXCEPT ![g] = "closed"]
    /\ UNCHANGED <<procVars, nread, plog, _cancelled, _events, active, delivered,
                   scope, ncancel, sigArg, atCancel>>
    /\ UNCHANGED otherVars


\* -------------------------------------------------- StreamingResponse.cancel
\* `if not self._cancelled and self._process.poll() is None`
CancelActs_always == TRUE

\* the same test without the poll
CancelActs_unpolled == ~_cancelled

CancelActs == ~_cancelled /\ poll_is_None

\* The calls cancel makes on the process once it acts: the signal and the
\* bounded wait, and when that wait raises TimeoutExpired, the kill and the
\* unbounded wait.
Escalation_killalways(signal, timedOut) ==
    <<LogSignal(signal), LogKill, LogWait>>

Escalation(signal, timedOut) ==
    IF timedOut
    THEN <<LogSignal(signal), LogWaitFor("TimeoutExpired"), LogKill, LogWait>>
    ELSE <<LogSignal(signal), LogWaitFor("ok")>>

\* The body of cancel(signal). When it acts it sets the flag, sends the signal
\* and waits up to CancelTimeout for the exit; if the wait times out it kills the
\* process and waits for the exit. Output the process writes before it dies is
\* output written before the call, as far as the consumer can tell, so the
\* writes stay with ProcWrite. When it does not act, its poll() has still
\* collected the exit code of a process that had exited.
CancelBody(signal) ==
    IF CancelActs
    THEN /\ _cancelled' = TRUE
         /\ atCancel' = (IF atCancel = -1 THEN Len(delivered) ELSE atCancel)
         /\ procState' = "reaped"
         /\ stdoutClosed' = TRUE
         /\ \E timedOut \in BOOLEAN :
               /\ plog' = plog \o Escalation(signal, timedOut)
               /\ exitCause' = (IF procState # "running" THEN exitCause
                                ELSE IF timedOut THEN "kill" ELSE "signal")
    ELSE /\ procState' = (IF _cancelled THEN procState ELSE polled(procState))
         /\ UNCHANGED <<_cancelled, atCancel, stdoutClosed, exitCause, plog>>

\* The consumer calls stream.cancel(signal) between two pulls.
cancel(signal) ==
    /\ active = 0
    /\ ncancel < MaxCancels
    /\ ncancel' = ncancel + 1
    /\ sigArg' = signal
    /\ CancelBody(signal)
    /\ UNCHANGED <<written, iterVars, scope>>
    /\ UNCHANGED otherVars

\* ------------------------------------- StreamingResponse.__enter__ / __exit__
\* `with stream as s:` enters the block; __enter__ returns the stream.
Enter ==
    /\ active = 0
    /\ scope = "none"
    /\ scope' = "inside"
    /\ UNCHANGED <<procVars, iterVars, plog, _cancelled, ncancel, sigArg, atCancel>>
    /\ UNCHANGED otherVars

\* `if self._process.poll() is None` in __exit__
ExitCancels_never == FALSE

ExitCancels == poll_is_None

\* The body of __exit__: cancel() when the process is seen running. The process
\* may exit on its own between the poll of __exit__ and the poll of cancel, and
\* cancel then finds it exited and does nothing but collect the exit code.
ExitBody ==
    IF ExitCancels
    THEN \/ CancelBody(SIGTERM)
         \/ /\ procState = "running"
            /\ procState' = "reaped"
            /\ stdoutClosed' = TRUE
            /\ exitCause' = "self"
            /\ UNCHANGED <<_cancelled, atCancel, plog>>
    ELSE /\ procState' = polled(procState)
         /\ UNCHANGED <<_cancelled, atCancel, stdoutClosed, exitCause, plog>>

\* The with-block is left: "normal" at its end, "break" by leaving a for loop
\* over the stream early (the loop's generator is closed), "exception" by an
\* exception passing through. __exit__ ignores how.
Exit(how) ==
    /\ active = 0
    /\ scope = "inside"
    /\ scope' = how
    /\ IF how = "break"
       THEN \E g \in Gens :
               /\ gen[g] = "suspended"
               /\ gen' = [gen EXCEPT ![g] = "closed"]
       ELSE UNCHANGED gen
    /\ ExitBody
    /\ UNCHANGED <<written, nread, _events, active, delivered, ncancel, sigArg>>
    /\ UNCHANGED otherVars

ExitHows == {"normal", "break", "exception"}
Signals == {SIGTERM, SIGKILL}

\* ------------------------------------------------------------ specification
Next ==
    \/ \E line \in Lines : ProcWrite(line)
    \/ ProcClose
    \/ ProcExit
    \/ \E g \in Gens : StartNext(g)
    \/ \E g \in Gens : IterLine(g)
    \/ \E g \in Gens : IterEof(g)
    \/ \E g \in Gens : Break(g)
    \/ \E signal \in Signals : cancel(signal)
    \/ Enter
    \/ \E how \in ExitHows : Exit(how)

Spec == Init /\ [][Next]_vars

\* ------------------------------------------------------------------- types
TypeOK ==
    /\ procState \in {"running", "exited", "reaped"}
    /\ stdoutClosed \in BOOLEAN
    /\ exitCause \in {"none", "self", "signal", "kill"}
    /\ Len(written) <= MaxLines
    /\ \A i \in 1..Len(written) : written[i] \in Lines
    /\ nread \in 0..Len(written)
    /\ _cancelled \in BOOLEAN
    /\ gen \in [Gens -> {"new", "running", "suspended", "done", "raised", "closed"}]
    /\ active \in 0..MaxIters
    /\ active # 0 => gen[active] = "running"
    /\ \A g \in Gens : gen[g] = "running" => active = g
    /\ scope \in {"none", "inside"} \cup ExitHows
    /\ ncancel \in 0..MaxCancels
    /\ sigArg \in Signals \cup {0}
    /\ atCancel \in -1..MaxLines


\* ----------------------------------------------------------------- helpers
IsPrefix(a, b) == Len(a) <= Len(b) /\ SubSeq(b, 1, Len(a)) = a

\* the lines the iteration has read so far
readLines == SubSeq(written, 1, nread)

\* the number of interrupt signals sent to the process
NSignals(log) == Cardinality({i \in DOMAIN log : log[i].op = "send_signal"})

\* a step that is a cancel() call of the consumer
CancelStep == ncancel' = ncancel + 1

\* a step that leaves the with-block
ExitStep == scope = "inside" /\ scope' \in ExitHows

\* ------------------------------------------------------------------- claims

\* C1: cancel is idempotent. A cancel() call on a running process sets the flag;
\* a cancelled stream has been sent exactly one interrupt signal, however many
\* cancel() calls were made and however they interleave with iteration; and
\* every cancel() call after the first changes nothing on the process: no
\* signal, no wait, no kill.
C1_CancelIdempotent ==
    [][ /\ (_cancelled' => NSignals(plog') = 1)
        /\ (CancelStep /\ procState = "running" => _cancelled')
        /\ (CancelStep /\ ncancel >= 1 =>
               /\ plog' = plog
               /\ procState' = procState
               /\ _cancelled' = _cancelled) ]_vars

\* C1 witness: two cancel() calls outside any with-block, around iteration that
\* delivered an event, and one signal sent in all.
C1_Witness ==
    /\ ncancel >= 2
    /\ scope = "none"
    /\ _cancelled
    /\ NSignals(plog) = 1
    /\ Len(delivered) >= 1
    /\ \E g \in Gens : gen[g] = "done"

\* C2: the accumulated event list only grows, every earlier value being a prefix
\* of every later one, and once the cancelled flag is true nothing is appended
\* to it, whatever output the process wrote before it died.
C2_EventsOnlyGrow ==
    [][ /\ IsPrefix(_events, _events')
        /\ (_cancelled => _events' = _events) ]_vars

\* C2 witness: after the cancel the iteration read a line that decodes to an
\* event, and did not append it.
C2_Witness ==
    /\ _cancelled
    /\ Len(_events) >= 1
    /\ Len(Decode(readLines)) > Len(_events)

\* C3: cancel() on a running stream after k delivered events sets the flag, and
\* from then on the consumer has received exactly those k events and the
\* accumulated list has length k; a pull made after it ends the iteration
\* cleanly: it delivers nothing and does not raise, whatever lines are
\* available.
C3_StopsAtCancel ==
    [][ /\ (CancelStep /\ procState = "running" =>
               _cancelled' /\ atCancel' = Len(delivered))
        /\ (_cancelled' => Len(delivered') = atCancel' /\ Len(_events') = atCancel')
        /\ (_cancelled =>
               /\ delivered' = delivered
               /\ \A g \in Gens :
                     gen[g] = "running" /\ gen'[g] # "running" => gen'[g] = "done") ]_vars

\* C3 witness: cancelled after k = 2 events with a third decodable line
\* available; the next pull read that line and ended the iteration.
C3_Witness ==
    /\ _cancelled
    /\ atCancel = 2
    /\ ncancel >= 1
    /\ gen[1] = "done"
    /\ nread = 3
    /\ Len(Decode(written)) = 3
    /\ Len(delivered) = 2


\* C4: every cancel request is observable. After any cancel() call the cancelled
\* flag is true, whatever state the stream was in (the process already exited
\* on its own included), and once cancel() has been called the iteration
\* delivers no further event.
C4_CancelObservable ==
    [][ /\ (CancelStep => _cancelled')
        /\ (ncancel >= 1 => delivered' = delivered) ]_vars

\* Consumption has ended: an iteration was started, and none is in progress or
\* suspended at a yield.
ConsumptionEnded ==
    /\ active = 0
    /\ \E g \in Gens : gen[g] \in {"done", "closed", "raised"}
    /\ \A g \in Gens : gen[g] \notin {"running", "suspended"}

\* C5: on every exit path from stream consumption (exhaustion, cancel, scope
\* exit, early break, an error out of the decoder) the child process has exited
\* and has been waited on.
C5_ReapedOnEveryExit ==
    ConsumptionEnded => procState = "reaped"

\* C6: cancel escalates in a fixed order. Every interrupt signal is followed at
\* once by the wait bounded by 2 s; the kill is sent exactly when that wait
\* timed out, directly after it, and is followed by the unbounded wait; a
\* cancel() call of the consumer that finds the process running sends the
\* signal it was given, and a cancel made by the scope exit sends the default,
\* 15; and when the calls are done the process has exited and been waited on.
C6_EscalationOrder ==
    [][ /\ \A i \in DOMAIN plog' :
              /\ plog'[i].op = "send_signal" =>
                    /\ i + 1 <= Len(plog')
                    /\ plog'[i + 1].op = "wait_timeout"
                    /\ plog'[i + 1].arg = 2
              /\ plog'[i].op = "wait_timeout" =>
                    /\ i > 1
                    /\ plog'[i - 1].op = "send_signal"
                    /\ (plog'[i].res = "TimeoutExpired") <=>
                          (i + 1 <= Len(plog') /\ plog'[i + 1].op = "kill")
              /\ plog'[i].op = "kill" =>
                    /\ i > 1
                    /\ plog'[i - 1].op = "wait_timeout"
                    /\ plog'[i - 1].res = "TimeoutExpired"
                    /\ i + 1 <= Len(plog')
                    /\ plog'[i + 1].op = "wait"
        /\ (CancelStep /\ procState = "running" =>
               /\ Len(plog') \in {Len(plog) + 2, Len(plog) + 4}
               /\ plog'[Len(plog) + 1].op = "send_signal"
               /\ plog'[Len(plog) + 1].arg = sigArg')
        /\ (ExitStep /\ NSignals(plog') > NSignals(plog) =>
               /\ plog'[Len(plog) + 1].op = "send_signal"
               /\ plog'[Len(plog) + 1].arg = 15)
        /\ (NSignals(plog') > 0 => procState' = "reaped") ]_vars

\* C6 witness (kill path): the signal asked for was 9, the bounded wait timed
\* out, and the kill and the unbounded wait followed.
C6_Witness ==
    /\ Len(plog) = 4
    /\ plog[1].op = "send_signal" /\ plog[1].arg = 9
    /\ plog[2].op = "wait_timeout" /\ plog[2].res = "TimeoutExpired"
    /\ plog[3].op = "kill"
    /\ plog[4].op = "wait"
    /\ exitCause = "kill"
    /\ procState = "reaped"

C8_NoSignalToExited ==
    [][ /\ (CancelStep /\ procState # "running" =>
               plog' = plog /\ _cancelled' = _cancelled)
        /\ (NSignals(plog') > NSignals(plog) =>
               procState = "running" /\ ~_cancelled) ]_vars

\* C8 witness: cancel() was called, outside any with-block, on a process that
\* had exited on its own: nothing was sent and its exit code was collected by
\* the poll.
C8_Witness ==
    /\ ncancel >= 1
    /\ scope = "none"
    /\ exitCause = "self"
    /\ procState = "reaped"
    /\ plog = <<>>
    /\ ~_cancelled

\* The stream is Terminated by exhaustion: an iteration ran to the end of the
\* output without the stream being cancelled.
Exhausted == ~_cancelled /\ \E g \in Gens : gen[g] = "done"

\* C9: iterating to exhaustion without cancelling delivers one event per
\* decodable line of the output, in output order, then waits on the process and
\* ends; the stream stays not cancelled, and a later iteration reads, decodes
\* and delivers nothing.
C9_ExhaustionTerminates ==
    [][ /\ (Exhausted' =>
               /\ delivered' = Decode(written')
               /\ nread' = Len(written')
               /\ procState' = "reaped"
               /\ \E i \in DOMAIN plog' : plog'[i].op = "wait")
        /\ (Exhausted =>
               /\ ~_cancelled'
               /\ delivered' = delivered
               /\ nread' = nread
               /\ written' = written) ]_vars

\* C9 witness: three lines, two of them decodable, were drained by one
\* iteration, and a second iteration of the same stream ended as well.
C9_Witness ==
    /\ ~_cancelled
    /\ gen[1] = "done"
    /\ gen[2] = "done"
    /\ Len(written) = 3
    /\ Len(delivered) = 2
    /\ delivered[1] # delivered[2]
    /\ procState = "reaped"

\* C10: whenever the consumer holds control the accumulated event list is the
\* sequence of events delivered to it, in order; and the sequence is forward
\* only: the events delivered are those of the lines read so far, each line
\* read once, in output order, also across a second iteration of the stream.
C10_EventsAreDelivered ==
    /\ (active = 0 => _events = delivered)
    /\ IsPrefix(delivered, Decode(readLines))
    /\ (~_cancelled => delivered = Decode(readLines))

\* C10 witness: a second iteration was started after the first had delivered an
\* event, and it delivered the next one.
C10_Witness ==
    /\ active = 0
    /\ gen[1] \in {"suspended", "closed"}
    /\ gen[2] = "suspended"
    /\ Len(delivered) >= 2
    /\ delivered[1] # delivered[2]


\* ==================================================== CursorAgentClient.query
\* `session_id or ""`
OrEmpty_blank(session_id) == ""

OrEmpty(session_id) == IF Truthy(session_id) THEN session_id ELSE ""

\* `result.stderr or f"Exit code: {result.returncode}"`
ExitError_stderr(run) == run.stderr

ExitError(run) ==
    IF Truthy(run.stderr) THEN run.stderr ELSE ExitCodeMessage(run.returncode)

\* The inner try of query on the output of a process that exited with 0:
\* json.loads of the stripped output; JSONDecodeError is caught and answered
\* with the raw output; the Result is built from the payload with dict.get,
\* which raises AttributeError on a JSON value that is no object.
\* `error=data.get("error") if data.get("is_error") else None`
PayloadErrorField_unflagged(data) == Get(data, "error", None)

PayloadErrorField(data) ==
    IF Truthy(Get(data, "is_error", None)) THEN Get(data, "error", None) ELSE None

ParsePayload(stdout, session_id) ==
    LET kind == json_loads(strip(stdout))
        data == json_object(strip(stdout))
    IN  IF kind = "JSONDecodeError"
        THEN AgentResult(FALSE, stdout, OrEmpty(session_id), ParseErrorMessage, <<>>)
        ELSE IF kind # "dict"
        THEN Raised("AttributeError")
        ELSE AgentResult(Get(data, "subtype", None) = "success",
                         Get(data, "result", ""),
                         Get(data, "session_id", ""),
                         PayloadErrorField(data),
                         <<>>)

\* The body of the outer try: subprocess.run, the test of the return code, the
\* inner try.
RunAndParse(session_id, run) ==
    IF run.kind = "raises"
    THEN Raised(run.exc)
    ELSE IF run.returncode # 0
    THEN AgentResult(FALSE, "", OrEmpty(session_id), ExitError(run), <<>>)
    ELSE ParsePayload(run.stdout, session_id)

\* `except subprocess.TimeoutExpired` and `except Exception as e` of query
OuterExcept_timeoutonly(r, session_id) ==
    IF r.tag = "raise" /\ r.error = "TimeoutExpired"
    THEN AgentResult(FALSE, "", OrEmpty(session_id), "Request timed out", <<>>)
    ELSE r

OuterExcept(r, session_id) ==
    IF r.tag # "raise"
    THEN r
    ELSE IF r.error = "TimeoutExpired"
    THEN AgentResult(FALSE, "", OrEmpty(session_id), "Request timed out", <<>>)
    ELSE AgentResult(FALSE, "", OrEmpty(session_id), str(r.error), <<>>)

\* client.query(prompt, session_id, ...) when subprocess.run does `run`. The
\* prompt goes to the input of the process and the mode into the command; neither
\* is read again.
query(session_id, run) == OuterExcept(RunAndParse(session_id, run), session_id)

\* One call of query on inputs drawn from SessionIdArgs and Runs.
QueryInit ==
    /\ StreamInit
    /\ SessionIdle
    /\ LaterIdle
    /\ qsid \in SessionIdArgs
    /\ qrun \in Runs
    /\ qret = Pending

Query ==
    /\ qret.tag = "pending"
    /\ qret' = query(qsid, qrun)
    /\ UNCHANGED <<qsid, qrun, vars, sessionVars, laterVars>>

QueryNext == Query

QuerySpec == QueryInit /\ [][QueryNext]_<<vars, otherVars>>

\* the call has returned or raised
QueryDone == qret.tag # "pending"

\* the process ran to its end
Completed == qrun.kind = "completed"

\* C18: query never raises. Whatever subprocess.run does (fails to launch, times
\* out, exits non-zero, leaves undecodable output, leaves a payload) the call
\* returns an AgentResult, and on a timeout that Result has success = false and
\* the error "Request timed out".
C18_QueryNeverRaises ==
    QueryDone =>
        /\ qret.tag = "AgentResult"
        /\ (qrun.kind = "raises" => ~qret.success)
        /\ (qrun.kind = "raises" /\ qrun.exc = "TimeoutExpired" =>
               qret.error = "Request timed out")

\* C18 witness: the run timed out under a resumed session, and the call
\* returned the timed-out failure Result.
C18_Witness ==
    /\ QueryDone
    /\ qrun.kind = "raises"
    /\ qrun.exc = "TimeoutExpired"
    /\ qsid = "s0"
    /\ qret.tag = "AgentResult"
    /\ qret.error = "Request timed out"

\* C19: a zero exit whose output does not decode to a result payload (a JSON
\* object) gives a failure Result whose error is the parse diagnostic and whose
\* text is the raw captured output.
C19_MalformedPayloadKept ==
    QueryDone /\ Completed /\ qrun.returncode = 0
              /\ qrun.stdout \in {"", "  oops  ", "5"} =>
        /\ qret.tag = "AgentResult"
        /\ ~qret.success
        /\ qret.result = qrun.stdout
        /\ qret.error = "Failed to parse JSON: Expecting value"

\* C20: a non-zero exit gives a failure Result with empty text whose error is
\* the captured diagnostic text when there is some and names the exit code
\* otherwise, whatever the process wrote to its output.
C20_NonZeroExit ==
    QueryDone /\ Completed /\ qrun.returncode # 0 =>
        /\ qret.tag = "AgentResult"
        /\ ~qret.success
        /\ qret.result = ""
        /\ (qrun.stderr # "" => qret.error = qrun.stderr)
        /\ (qrun.stderr = "" /\ qrun.returncode = 1 => qret.error = "Exit code: 1")
        /\ (qrun.stderr = "" /\ qrun.returncode = 2 => qret.error = "Exit code: 2")

\* C20 witness: exit code 2, no diagnostic text, and a well-formed success
\* payload on the output, which was not decoded.
C20_Witness ==
    /\ QueryDone
    /\ Completed
    /\ qrun.returncode = 2
    /\ qrun.stderr = ""
    /\ qrun.stdout = "{subtype: success, result: 4, session_id: s1}"
    /\ qret.error = "Exit code: 2"
    /\ ~qret.success



\* C21: on a zero exit with a decoded payload, success is true exactly when the
\* payload's subtype is "success", and error is the payload's error field when
\* its is_error flag is true and None otherwise, also when the payload has an
\* error field; success and error do not depend on each other.
C21_SuccessAndErrorIndependent ==
    QueryDone /\ Completed /\ qrun.returncode = 0 =>
        /\ (qrun.stdout = "{subtype: success, result: 4, session_id: s1}" =>
               qret.success /\ qret.error = None)
        /\ (qrun.stdout = "{subtype: success, error: ignored}" =>
               qret.success /\ qret.error = None)
        /\ (qrun.stdout = "{subtype: success, is_error: true, error: warned, result: 4}" =>
               qret.success /\ qret.error = "warned")
        /\ (qrun.stdout = "{subtype: error, is_error: true, error: bad, result: no, session_id: s2}" =>
               ~qret.success /\ qret.error = "bad")
        /\ (qrun.stdout = "{subtype: error, is_error: true}" =>
               ~qret.success /\ qret.error = None)

\* C21 witness: a success payload whose error flag is set gave a Result with
\* success true and an error message.
C21_Witness ==
    /\ QueryDone
    /\ Completed
    /\ qrun.returncode = 0
    /\ qrun.stdout = PayloadWarned
    /\ qret.tag = "AgentResult"
    /\ qret.success
    /\ qret.error = "warned"
    /\ qret.result = "4"

\* ======================================================= ConversationSession
\* The history of a session holds at most MaxHistory entries between resets.
MaxHistory == 2

Prompts == {"p1", "p2"}

\* What the process of one send can do: fail to launch, time out, exit
\* non-zero, leave output that is not JSON, and leave a success payload with a
\* token, an error payload with a token, a success payload without one.
SessionRuns ==
    {run \in Runs :
        \/ run.kind = "raises"
        \/ run.kind = "completed" /\ run.returncode = 1 /\ run.stdout = ""
                                  /\ run.stderr = "boom"
        \/ run.kind = "completed" /\ run.returncode = 0 /\ run.stderr = ""
              /\ run.stdout \in {"  oops  ", PayloadOk, PayloadError,
                                 PayloadNoToken}}

\* The events of a streamed turn, as _parse_event leaves them: the init event
\* with the session's token, a success outcome with text and token, a failure
\* outcome with neither.
EventInit  == [type |-> "system:init", text |-> None, session_id |-> "s1"]
EventOk    == [type |-> "result:success", text |-> "4", session_id |-> "s2"]
EventError == [type |-> "result:error", text |-> None, session_id |-> None]
SessionEvents == {EventInit, EventOk, EventError}

\* What one streamed turn can accumulate, every stage of it: nothing, the init
\* event alone (the turn was cancelled before its outcome), an outcome with or
\* without a token, the init event followed by the outcome, two outcomes.
Accumulations ==
    {<<>>, <<EventInit>>, <<EventOk>>, <<EventError>>,
     <<EventInit, EventOk>>, <<EventOk, EventError>>}

\* EventType.RESULT_SUCCESS, EventType.RESULT_ERROR
OutcomeTypes == {"result:success", "result:error"}

\* `session_id=self._session_id` of send and send_stream
ResumeToken_none(session_id) == None

ResumeToken(session_id) == session_id

\* send: `if result.session_id: self._session_id = result.session_id`
StoreToken_always(session_id, result) == result.session_id

StoreToken(session_id, result) ==
    IF Truthy(result.session_id) THEN result.session_id ELSE session_id

\* send: `self._history.append((prompt, result))`
Record_successes(history, prompt, result) ==
    IF result.success THEN Append(history, <<prompt, result>>) ELSE history

Record(history, prompt, result) == Append(history, <<prompt, result>>)

\* send_stream assigns to no field of the session: the pair of token and
\* history after the call
AfterSendStream_cleared(session_id, history) == <<None, history>>

AfterSendStream(session_id, history) == <<session_id, history>>

\* finalize_stream: `for event in events: if event.session_id: ...`
RECURSIVE ScanTokens_first(_, _)
ScanTokens_first(events, session_id) ==
    IF events = <<>> THEN session_id
    ELSE IF Truthy(Head(events).session_id) THEN Head(events).session_id
    ELSE ScanTokens_first(Tail(events), session_id)

\* the scan made only for a stream that has an outcome event
ScanTokens_committed(events, session_id) ==
    IF \A i \in DOMAIN events : events[i].type \notin OutcomeTypes
    THEN session_id
    ELSE ScanTokens_first(events, session_id)

RECURSIVE ScanTokens(_, _)
ScanTokens(events, session_id) ==
    IF events = <<>> THEN session_id
    ELSE ScanTokens(Tail(events),
                    IF Truthy(Head(events).session_id)
                    THEN Head(events).session_id ELSE session_id)

\* finalize_stream: next((e for e in reversed(events) if e.type in (...)), None)
NoEvent == [type |-> None, text |-> None, session_id |-> None]

LastOutcome_any(events) ==
    IF events = <<>> THEN NoEvent ELSE events[Len(events)]

RECURSIVE LastOutcome(_)
LastOutcome(events) ==
    IF events = <<>> THEN NoEvent
    ELSE IF events[Len(events)].type \in OutcomeTypes THEN events[Len(events)]
    ELSE LastOutcome(SubSeq(events, 1, Len(events) - 1))

\* finalize_stream: the AgentResult built from the outcome event
Synthesize(result_event, session_id, events) ==
    AgentResult(result_event.type = "result:success",
                IF Truthy(result_event.text) THEN result_event.text ELSE "",
                OrEmpty(session_id),
                None,
                events)

\* reset: `self._session_id = None`
ResetToken_kept(session_id) == session_id

ResetToken(session_id) == None

\* ConversationSession(client, session_id)
SessionInit ==
    /\ StreamInit
    /\ QueryIdle
    /\ LaterIdle
    /\ _session_id \in SessionIdArgs
    /\ _history = <<>>
    /\ stream = [made |-> FALSE, events |-> <<>>]
    /\ callOp = "none"
    /\ callPrompt = ""
    /\ callArg = None
    /\ callRet = Pending
    /\ observed = IF _session_id = "s0" THEN "s0" ELSE None

\* session.send(prompt) when the process does `run`
send(prompt, run) ==
    /\ Len(_history) < MaxHistory
    /\ LET result == query(ResumeToken(_session_id), run)
       IN  /\ _session_id' = StoreToken(_session_id, result)
           /\ _history' = Record(_history, prompt, result)
           /\ callRet' = result
           /\ observed' = IF result.session_id \in {"s0", "s1", "s2"}
                          THEN result.session_id ELSE observed
    /\ callOp' = "send"
    /\ callPrompt' = prompt
    /\ callArg' = ResumeToken(_session_id)
    /\ UNCHANGED <<stream, vars, queryVars, laterVars>>

\* session.send_stream(prompt): the stream of a new process, no event yet
send_stream(prompt) ==
    /\ _session_id' = AfterSendStream(_session_id, _history)[1]
    /\ _history' = AfterSendStream(_session_id, _history)[2]
    /\ stream' = [made |-> TRUE, events |-> <<>>]
    /\ callOp' = "send_stream"
    /\ callPrompt' = prompt
    /\ callArg' = ResumeToken(_session_id)
    /\ callRet' = Pending
    /\ UNCHANGED <<observed, vars, queryVars, laterVars>>

\* The consumer pulls one more event out of the stream: it is appended to the
\* stream's accumulated events. A stream that is cancelled or abandoned just
\* stops here.
StreamEvent(e) ==
    /\ stream.made
    /\ Append(stream.events, e) \in Accumulations
    /\ stream' = [stream EXCEPT !.events = Append(@, e)]
    /\ UNCHANGED <<_session_id, _history, callOp, callPrompt, callArg, callRet,
                   observed, vars, queryVars, laterVars>>

\* session.finalize_stream(prompt, stream)
finalize_stream(prompt) ==
    /\ stream.made
    /\ LET events == stream.events
           token == ScanTokens(events, _session_id)
           result_event == LastOutcome(events)
           result == Synthesize(result_event, token, events)
           carriers == {i \in 1..Len(events) :
                           events[i].session_id \in {"s0", "s1", "s2"}}
       IN  /\ result_event # NoEvent => Len(_history) < MaxHistory
           /\ _session_id' = token
           /\ _history' = IF result_event # NoEvent
                          THEN Append(_history, <<prompt, result>>)
                          ELSE _history
           /\ callRet' = IF result_event # NoEvent THEN result ELSE ReturnedNone
           /\ observed' = IF carriers = {} THEN observed
                          ELSE events[CHOOSE i \in carriers :
                                         \A j \in carriers : j <= i].session_id
    /\ callOp' = "finalize_stream"
    /\ callPrompt' = prompt
    /\ callArg' = None
    /\ UNCHANGED <<stream, vars, queryVars, laterVars>>

\* session.reset()
reset ==
    /\ _session_id' = ResetToken(_session_id)
    /\ _history' = <<>>
    /\ observed' = None
    /\ callOp' = "reset"
    /\ callPrompt' = ""
    /\ callArg' = None
    /\ callRet' = ReturnedNone
    /\ UNCHANGED <<stream, vars, queryVars, laterVars>>

SessionNext ==
    \/ \E prompt \in Prompts, run \in SessionRuns : send(prompt, run)
    \/ \E prompt \in Prompts : send_stream(prompt)
    \/ \E e \in SessionEvents : StreamEvent(e)
    \/ \E prompt \in Prompts : finalize_stream(prompt)
    \/ reset

SessionSpec == SessionInit /\ [][SessionNext]_<<vars, otherVars>>


sessionAll == <<vars, otherVars>>

\* the step is a call of send, of send_stream, of finalize_stream, of reset;
\* the stream got one more event
SendStep == callOp' = "send" /\ stream' = stream
SendStreamStep == callOp' = "send_stream" /\ stream'.events = <<>>
FinalizeStep == callOp' = "finalize_stream" /\ stream' = stream
ResetStep == callOp' = "reset" /\ stream' = stream
StreamEventStep == Len(stream'.events) = Len(stream.events) + 1

\* the greatest index of a non-empty set of indices
Last(S) == CHOOSE i \in S : \A j \in S : j <= i

\* the positions of the events that carry a non-empty token, of the outcome
\* events
Carriers(events) ==
    {i \in 1..Len(events) : events[i].session_id \notin {None, ""}}
Outcomes(events) ==
    {i \in 1..Len(events) : events[i].type \in {"result:success", "result:error"}}

\* C11 as stated: without a reset a non-empty token never becomes empty, the
\* token is the most recent non-empty token observed, and a send that returns
\* an empty token, that fails or that times out leaves the token as it was.
C11_FailedSendKeepsToken ==
    [][ /\ (~ResetStep /\ _session_id \notin {None, ""} =>
               _session_id' \notin {None, ""})
        /\ (observed' # None => _session_id' = observed')
        /\ (SendStep /\ callRet'.session_id = "" => _session_id' = _session_id)
        /\ (SendStep /\ ~callRet'.success => _session_id' = _session_id)
      ]_sessionAll

\* C11 amended: without a reset a non-empty token never becomes empty, the
\* token is the most recent non-empty token observed, and a send that returns
\* an empty token or that times out leaves the token as it was; a send that
\* fails with a payload carrying a non-empty token stores that token.
C11_TokenRatchet ==
    [][ /\ (~ResetStep /\ _session_id \notin {None, ""} =>
               _session_id' \notin {None, ""})
        /\ (observed' # None => _session_id' = observed')
        /\ (SendStep /\ callRet'.session_id = "" => _session_id' = _session_id)
        /\ (SendStep /\ callRet'.error = "Request timed out" =>
               _session_id' = _session_id)
        /\ (SendStep /\ callRet'.session_id \notin {None, ""} =>
               _session_id' = callRet'.session_id)
      ]_sessionAll

\* C11 witness: the first send stored s1; the second failed with an error
\* payload carrying s2, and the token is now s2.
C11_Witness ==
    /\ callOp = "send"
    /\ Len(_history) = 2
    /\ _history[1][2].session_id = "s1"
    /\ ~callRet.success
    /\ callRet.session_id = "s2"
    /\ _session_id = "s2"

\* C12: the token send and send_stream pass to the client is the session's
\* token at the call: the most recent non-empty token observed when there is
\* one, none right after a reset, and in consecutive sends the token the
\* previous send returned.
C12_ResumesCurrentToken ==
    [][ SendStep \/ SendStreamStep =>
          /\ callArg' = _session_id
          /\ (observed # None => callArg' = observed)
          /\ (callOp = "reset" => callArg' = None)
          /\ (callOp = "send" /\ callRet.session_id \notin {None, ""} =>
                 callArg' = callRet.session_id)
      ]_sessionAll

\* C12 witness: the second of two sends resumed the token s1 that the first
\* one returned.
C12_Witness ==
    /\ callOp = "send"
    /\ Len(_history) = 2
    /\ _history[1][2].session_id = "s1"
    /\ callArg = "s1"
    /\ _history[2][2] = callRet

\* C13: every send appends its (prompt, Result) pair at the end of the
\* history, failures and timeouts included; so does every finalize_stream
\* that returns a Result; a finalize_stream that returns None, send_stream and
\* the stream's progress leave the history as it is; reset empties it.
C13_HistoryIsTheCalls ==
    [][ /\ (SendStep => _history' = _history \o <<<<callPrompt', callRet'>>>>)
        /\ (FinalizeStep /\ callRet'.tag = "AgentResult" =>
               _history' = _history \o <<<<callPrompt', callRet'>>>>)
        /\ (FinalizeStep /\ callRet'.tag # "AgentResult" => _history' = _history)
        /\ (SendStreamStep \/ StreamEventStep => _history' = _history)
        /\ (ResetStep => _history' = <<>>)
      ]_sessionAll

\* C13 witness: a send that timed out, then a finalized stream, in this order
\* and under different prompts.
C13_Witness ==
    /\ Len(_history) = 2
    /\ _history[1][1] = "p2"
    /\ _history[1][2].error = "Request timed out"
    /\ _history[2][1] = "p1"
    /\ _history[2][2].events = <<EventInit, EventOk>>
    /\ callOp = "finalize_stream"

\* C14: finalize_stream on a stream that has accumulated no outcome event
\* returns None and leaves the history as it is.
C14_NoOutcomeNoEntry ==
    [][ FinalizeStep /\ Outcomes(stream.events) = {} =>
          /\ callRet'.tag = "None"
          /\ _history' = _history
      ]_sessionAll

\* C14 witness: a turn that stopped after its init event was finalized on a
\* session with one entry of history: None was returned, the entry is there.
C14_Witness ==
    /\ callOp = "finalize_stream"
    /\ stream.events = <<EventInit>>
    /\ callRet.tag = "None"
    /\ Len(_history) = 1

\* C15: finalize_stream on a stream with an outcome event sets the token to
\* that of the last event carrying a non-empty one (no change when none
\* does) and returns a Result made from the last outcome event: success iff
\* it is a success outcome, its text or the empty string, the token after the
\* update, all accumulated events; the Result is appended to the history.
C15_FinalizeSynthesizes ==
    [][ FinalizeStep /\ Outcomes(stream.events) # {} =>
          LET events == stream.events
              e == events[Last(Outcomes(events))]
          IN  /\ _session_id' = IF Carriers(events) = {} THEN _session_id
                                ELSE events[Last(Carriers(events))].session_id
              /\ callRet'.tag = "AgentResult"
              /\ callRet'.success = (e.type = "result:success")
              /\ callRet'.result = (IF e.text = None THEN "" ELSE e.text)
              /\ callRet'.session_id =
                     (IF _session_id' = None THEN "" ELSE _session_id')
              /\ callRet'.events = events
              /\ _history' = _history \o <<<<callPrompt', callRet'>>>>
      ]_sessionAll

\* C15 witness: a stream with a success outcome carrying s2 and then a failure
\* outcome without token or text was finalized: a failure Result with empty
\* text and token s2.
C15_Witness ==
    /\ callOp = "finalize_stream"
    /\ stream.events = <<EventOk, EventError>>
    /\ callRet.tag = "AgentResult"
    /\ ~callRet.success
    /\ callRet.result = ""
    /\ callRet.session_id = "s2"
    /\ _session_id = "s2"
    /\ _history[Len(_history)] = <<callPrompt, callRet>>

\* C16: send_stream and every event the stream accumulates afterwards leave
\* the session's token and history as they were.
C16_SendStreamFrame ==
    [][ SendStreamStep \/ StreamEventStep =>
          /\ _session_id' = _session_id
          /\ _history' = _history
      ]_sessionAll

\* C16 witness: a session constructed on s0 called send_stream and the stream
\* accumulated events carrying s1 and s2: the token is still s0 and the history
\* is empty.
C16_Witness ==
    /\ callOp = "send_stream"
    /\ stream.events = <<EventInit, EventOk>>
    /\ _session_id = "s0"
    /\ _history = <<>>

\* C17: reset leaves no token and an empty history, whatever the state it is
\* called in; the send that follows passes no token and its entry is the only
\* one of the history.
C17_ResetClears ==
    [][ /\ (ResetStep => _session_id' = None /\ _history' = <<>>)
        /\ (callOp = "reset" /\ SendStep =>
               /\ callArg' = None
               /\ _history' = <<<<callPrompt', callRet'>>>>)
      ]_sessionAll

\* C17 witness: a session that had finalized a stream of two events was reset.
C17_Witness ==
    /\ callOp = "reset"
    /\ stream.events = <<EventInit, EventOk>>
    /\ _session_id = None
    /\ _history = <<>>


\* C37: finalize_stream on a stream without outcome event still sets the token
\* to that of the last event carrying a non-empty one, while it returns None
\* and leaves the history as it is.
C37_AbandonedTurnMovesToken ==
    [][ FinalizeStep /\ Outcomes(stream.events) = {}
                     /\ Carriers(stream.events) # {} =>
          /\ _session_id' =
                 stream.events[Last(Carriers(stream.events))].session_id
          /\ callRet'.tag = "None"
          /\ _history' = _history
      ]_sessionAll

\* C37 witness: a session constructed on s0 finalized a stream that stopped
\* after its init event: nothing in the history, and the token is s1.
C37_Witness ==
    /\ callOp = "finalize_stream"
    /\ stream.events = <<EventInit>>
    /\ callRet.tag = "None"
    /\ _history = <<>>
    /\ observed = "s1"
    /\ _session_id = "s1"

\* the error texts of the Results query builds on its failure paths: the
\* timeout, the diagnostic text of a non-zero exit, the parse failure, an
\* exception of the launch
FailureErrors ==
    {"Request timed out", "boom", "Failed to parse JSON: Expecting value",
     "[Errno 2] No such file or directory: 'agent'"}

\* the token a failure Result carries when session_id was passed
Supplied(session_id) == IF session_id \in {None, ""} THEN "" ELSE session_id

\* C38 as stated: on every failure path of query the Result's token is the
\* session_id passed, the empty string when none was; and a send whose Result
\* is a failure leaves the session's token as it was.
C38_FailedSendKeepsToken ==
    [][ SendStep =>
          /\ (callRet'.error \in FailureErrors =>
                 /\ ~callRet'.success
                 /\ callRet'.session_id = Supplied(callArg'))
          /\ (~callRet'.success => _session_id' = _session_id)
      ]_sessionAll

\* C38 amended: on every failure path of query the Result's token is the
\* session_id passed, the empty string when none was; and a send that fails on
\* one of these paths leaves the session's token as it was.
C38_FailurePathKeepsToken ==
    [][ SendStep /\ callRet'.error \in FailureErrors =>
          /\ ~callRet'.success
          /\ callRet'.session_id = Supplied(callArg')
          /\ _session_id' = _session_id
      ]_sessionAll

\* C38 witness: the second send of a session whose token was s1 left output
\* that is not JSON: the Result carries s1 and the token is still s1.
C38_Witness ==
    /\ callOp = "send"
    /\ Len(_history) = 2
    /\ callArg = "s1"
    /\ callRet.error = "Failed to parse JSON: Expecting value"
    /\ callRet.session_id = "s1"
    /\ _session_id = "s1"

\* ===================================================== decoding in the stream
\* C23: decoding never raises: no line of the output, a well-formed JSON value
\* that is no object included, makes an iteration of the stream end by an
\* exception.
C23_DecodingNeverRaises == \A g \in Gens : gen[g] # "raised"

\* the lines that are blank, white space or not JSON; the lines that decode
MalformedLines == {"   ", "not valid json"}
DecodableLines == {"{A}", "{B}"}
IsDecodableLine(line) == line \in DecodableLines

\* the events of the decodable lines of ls, in the order of the lines
EventsOfDecodable(ls) ==
    LET sel == SelectSeq(ls, IsDecodableLine)
    IN  [i \in 1..Len(sel) |-> [data |-> sel[i]]]

\* C24: reading a line that is blank, white space or not JSON appends and
\* delivers nothing and does not end the iteration (it goes on unless the stream
\* is cancelled); a stream drained to its end has delivered exactly one event per
\* decodable line, in the order of the lines.
C24_MalformedLinesSkipped ==
    [][ /\ (nread' = nread + 1 /\ written[nread + 1] \in MalformedLines =>
               /\ _events' = _events
               /\ delivered' = delivered
               /\ gen'[active] \in {"running", "done"}
               /\ (~_cancelled => gen'[active] = "running" /\ active' = active))
        /\ (Exhausted' =>
               /\ delivered' = EventsOfDecodable(written')
               /\ Len(delivered') =
                      Cardinality({i \in DOMAIN written' :
                                      written'[i] \in DecodableLines}))
      ]_vars

\* C24 witness: of three lines the middle one is not JSON; one iteration
\* drained the stream and delivered the events of the first and the third.
C24_Witness ==
    /\ Exhausted
    /\ gen[1] = "done"
    /\ gen[2] = "new"
    /\ written = <<"{A}", "not valid json", "{B}">>
    /\ delivered = <<[data |-> "{A}"], [data |-> "{B}"]>>


\* ============================================= CursorAgentClient._parse_event
\* _parse_event is called at most MaxParses times on one line.
MaxParses == 2

\* The JSON objects a line can decode to. A key is Absent or has a value; None
\* is JSON's null. The message is no key, a string, or an object whose content
\* is no key, a list of items or a string; an item is a string or an object.
RawTypes ==
    {Absent, "system", "user", "thinking", "assistant", "result",
     "tool-call-started", "tool-call-completed", "status"}
SubTypes == {Absent, "init", "delta", "success", "started"}
Timestamps == {Absent, None, "1700000000000"}
Texts == {Absent, None, "t"}
Results == {Absent, "r"}
Tokens == {Absent, "s1"}

Item(kind, type, text) == [kind |-> kind, type |-> type, text |-> text]
Message(kind, ckind, items) ==
    [kind |-> kind, content |-> [kind |-> ckind, items |-> items]]

MsgAbsent        == Message(Absent, Absent, <<>>)
MsgString        == Message("str", Absent, <<>>)
MsgNoContent     == Message("dict", Absent, <<>>)
MsgEmptyContent  == Message("dict", "list", <<>>)
MsgStringContent == Message("dict", "str", <<>>)
MsgNoTextItem    ==
    Message("dict", "list",
            <<Item("str", Absent, Absent), Item("dict", "image", "img")>>)
MsgText          == Message("dict", "list", <<Item("dict", "text", "m1")>>)
MsgLaterText     ==
    Message("dict", "list",
            <<Item("str", Absent, Absent), Item("dict", "image", "img"),
              Item("dict", "text", "m1"), Item("dict", "text", "m2")>>)
MsgTextless      ==
    Message("dict", "list",
            <<Item("dict", "text", Absent), Item("dict", "text", "m2")>>)
Messages ==
    {MsgAbsent, MsgString, MsgNoContent, MsgEmptyContent, MsgStringContent,
     MsgNoTextItem, MsgText, MsgLaterText, MsgTextless}

JsonObjects ==
    [type : RawTypes, subtype : SubTypes, timestamp_ms : Timestamps,
     text : Texts, result : Results, session_id : Tokens, message : Messages]

\* data.get(key): None for a key the object does not have
GetOrNone(v) == IF v = Absent THEN None ELSE v

\* raw_type = data.get("type", "unknown")
RawTypeOf(data) == IF data.type = Absent THEN "unknown" ELSE data.type

\* the if/elif chain that determines event_type
EventTypeOf_untimed(data) ==
    LET raw_type == RawTypeOf(data)
        subtype == GetOrNone(data.subtype)
    IN  IF raw_type = "system" /\ subtype = "init" THEN "system:init"
        ELSE IF raw_type = "user" THEN "user"
        ELSE IF raw_type = "thinking"
             THEN (IF subtype = "delta" THEN "thinking:delta"
                   ELSE "thinking:completed")
        ELSE IF raw_type = "assistant"
             THEN (IF GetOrNone(data.timestamp_ms) # None THEN "assistant:delta"
                   ELSE "assistant")
        ELSE IF raw_type = "result"
             THEN (IF subtype = "success" THEN "result:success"
                   ELSE "result:error")
        ELSE IF raw_type = "tool-call-started" THEN "tool-call-started"
        ELSE IF raw_type = "tool-call-completed" THEN "tool-call-completed"
        ELSE "unknown"

EventTypeOf(data) ==
    LET raw_type == RawTypeOf(data)
        subtype == GetOrNone(data.subtype)
    IN  IF raw_type = "system" /\ subtype = "init" THEN "system:init"
        ELSE IF raw_type = "user" THEN "user"
        ELSE IF raw_type = "thinking"
             THEN (IF subtype = "delta" THEN "thinking:delta"
                   ELSE "thinking:completed")
        ELSE IF raw_type = "assistant"
             THEN (IF data.timestamp_ms # Absent THEN "assistant:delta"
                   ELSE "assistant")
        ELSE IF raw_type = "result"
             THEN (IF subtype = "success" THEN "result:success"
                   ELSE "result:error")
        ELSE IF raw_type = "tool-call-started" THEN "tool-call-started"
        ELSE IF raw_type = "tool-call-completed" THEN "tool-call-completed"
        ELSE "unknown"

\* `for item in content: if isinstance(item, dict) and item.get("type") ==
\* "text": text = item.get("text", ""); break`, text being None before
RECURSIVE FirstTextItem(_)
FirstTextItem(items) ==
    IF items = <<>> THEN None
    ELSE IF Head(items).kind = "dict" /\ Head(items).type = "text"
    THEN (IF Head(items).text = Absent THEN "" ELSE Head(items).text)
    ELSE FirstTextItem(Tail(items))

\* the text of the message: `"message" in data and isinstance(data["message"],
\* dict)`, `content = data["message"].get("content", [])`, `if content and
\* isinstance(content, list)`
MessageText(message) ==
    IF message.kind = "dict" /\ message.content.kind = "list"
                             /\ message.content.items # <<>>
    THEN FirstTextItem(message.content.items)
    ELSE None

\* the if/elif chain that extracts text
TextOf_resultfirst(data) ==
    IF data.result # Absent THEN data.result
    ELSE IF data.text # Absent THEN data.text
    ELSE MessageText(data.message)

TextOf(data) ==
    IF data.text # Absent THEN data.text
    ELSE IF data.result # Absent THEN data.result
    ELSE MessageText(data.message)

\* AgentEvent(type=..., raw_type=..., subtype=..., data=..., text=...,
\* session_id=..., timestamp_ms=...)
AgentEvent(data) ==
    [type |-> EventTypeOf(data),
     raw_type |-> RawTypeOf(data),
     subtype |-> GetOrNone(data.subtype),
     data |-> data,
     text |-> TextOf(data),
     session_id |-> GetOrNone(data.session_id),
     timestamp_ms |-> GetOrNone(data.timestamp_ms)]

\* One line that decoded to an object, drawn from JsonObjects.
DecodeInit ==
    /\ StreamInit
    /\ QueryIdle
    /\ SessionIdle
    /\ ClientIdle
    /\ AsyncIdle
    /\ ExtraIdle
    /\ pdata \in JsonObjects
    /\ pev = <<>>

\* self._parse_event(line) on that line
ParseEvent ==
    /\ Len(pev) < MaxParses
    /\ pev' = Append(pev, AgentEvent(pdata))
    /\ UNCHANGED <<pdata, vars, queryVars, sessionVars, clientVars, asyncVars,
                   extraVars>>

DecodeNext == ParseEvent

DecodeSpec == DecodeInit /\ [][DecodeNext]_<<vars, otherVars>>

\* C25: the type of every event is the one the classification table gives for
\* the object's type, subtype and timestamp key, one type for every object,
\* and decoding the object again gives the same event.
C25_ClassificationTable ==
    \A i \in DOMAIN pev :
        LET e == pev[i]
        IN  /\ pev[i] = pev[1]
            /\ (pdata.type = "system" =>
                   e.type = IF pdata.subtype = "init" THEN "system:init"
                            ELSE "unknown")
            /\ (pdata.type = "user" => e.type = "user")
            /\ (pdata.type = "thinking" =>
                   e.type = IF pdata.subtype = "delta" THEN "thinking:delta"
                            ELSE "thinking:completed")
            /\ (pdata.type = "assistant" /\ pdata.timestamp_ms # "absent" =>
                   e.type = "assistant:delta")
            /\ (pdata.type = "assistant" /\ pdata.timestamp_ms = "absent" =>
                   e.type = "assistant")
            /\ (pdata.type = "result" =>
                   e.type = IF pdata.subtype = "success" THEN "result:success"
                            ELSE "result:error")
            /\ (pdata.type = "tool-call-started" => e.type = "tool-call-started")
            /\ (pdata.type = "tool-call-completed" =>
                   e.type = "tool-call-completed")
            /\ (pdata.type \in {"absent", "status"} => e.type = "unknown")

\* C25 witness: an assistant object whose timestamp key holds null was decoded
\* twice, to an incremental answer both times.
C25_Witness ==
    /\ Len(pev) = 2
    /\ pdata.type = "assistant"
    /\ pdata.timestamp_ms = None
    /\ pev[1].type = "assistant:delta"
    /\ pev[2].type = "assistant:delta"

\* C26: whatever its type, the text of an event is the object's text key when
\* it has one, else its result key when it has one, else the text of the first
\* item tagged "text" of the list that is the content of the object that is its
\* message, and None when there is none; session_id and timestamp_ms are the
\* object's keys, None when it has none.
C26_DerivedFields ==
    \A i \in DOMAIN pev :
        LET e == pev[i]
            bare == pdata.text = "absent" /\ pdata.result = "absent"
        IN  /\ (pdata.text # "absent" => e.text = pdata.text)
            /\ (pdata.text = "absent" /\ pdata.result # "absent" =>
                   e.text = pdata.result)
            /\ (bare /\ pdata.message \in
                    {MsgAbsent, MsgString, MsgNoContent, MsgEmptyContent,
                     MsgStringContent, MsgNoTextItem} => e.text = None)
            /\ (bare /\ pdata.message \in {MsgText, MsgLaterText} =>
                   e.text = "m1")
            /\ (bare /\ pdata.message = MsgTextless => e.text = "")
            /\ e.session_id =
                   (IF pdata.session_id = "absent" THEN None ELSE pdata.session_id)
            /\ e.timestamp_ms =
                   (IF pdata.timestamp_ms = "absent" THEN None
                    ELSE pdata.timestamp_ms)

\* C26 witness: an object of an unlisted type with neither text nor result,
\* whose message has a string, an image item and two text items, decoded to an
\* event with the first text item's text and the object's token.
C26_Witness ==
    /\ Len(pev) >= 1
    /\ pdata.type = "status"
    /\ pdata.text = Absent
    /\ pdata.result = Absent
    /\ pdata.message = MsgLaterText
    /\ pdata.session_id = "s1"
    /\ pev[1].type = "unknown"
    /\ pev[1].text = "m1"
    /\ pev[1].session_id = "s1"


\* =========================================== CursorAgentClient._build_command
\* AgentConfig: every field unset or set; a workspace can be the empty string
Configs ==
    [agent_binary : {"agent"},
     workspace : {None, "", "/w"},
     model : {None, "gpt"},
     force_approve : BOOLEAN,
     approve_mcps : BOOLEAN,
     api_key : {None, "key"},
     headers : {<<>>, <<"h1">>, <<"h2", "h1">>}]

\* OutputFormat
OutputFormats == {"text", "json", "stream-json"}

\* mode: Optional[str]
Modes == {None, "", "plan"}

\* the arguments of _build_command
BuildArgs ==
    [prompt : Prompts, session_id : SessionIdArgs, output_format : OutputFormats,
     stream_partial : BOOLEAN, mode : Modes]

\* `if stream_partial and output_format == OutputFormat.STREAM_JSON`
PartialArgs_anyformat(stream_partial, output_format) ==
    IF stream_partial THEN <<"--stream-partial-output">> ELSE <<>>

PartialArgs(stream_partial, output_format) ==
    IF stream_partial /\ output_format = "stream-json"
    THEN <<"--stream-partial-output">> ELSE <<>>

\* `if session_id: cmd.extend(["--resume", session_id])`
ResumeArgs_always(session_id) == <<"--resume", OrEmpty(session_id)>>

ResumeArgs(session_id) ==
    IF Truthy(session_id) THEN <<"--resume", session_id>> ELSE <<>>

\* `if value: cmd.extend([flag, value])` for workspace, model, api_key, mode
PairArgs(flag, value) == IF Truthy(value) THEN <<flag, value>> ELSE <<>>

\* `if value: cmd.append(flag)` for force_approve and approve_mcps
FlagArgs(flag, value) == IF value THEN <<flag>> ELSE <<>>

\* `for header in self.config.headers: cmd.extend(["-H", header])`
RECURSIVE HeaderArgs(_)
HeaderArgs(headers) ==
    IF headers = <<>> THEN <<>>
    ELSE <<"-H", Head(headers)>> \o HeaderArgs(Tail(headers))

\* what the prompt adds to the list: nothing, it goes to the input channel
PromptArgs_positional(prompt) == <<prompt>>

PromptArgs(prompt) == <<>>

\* self._build_command(prompt, session_id, output_format, stream_partial, mode)
build_command(cfg, args) ==
    <<cfg.agent_binary, "--print">>
    \o <<"--output-format", args.output_format>>
    \o PartialArgs(args.stream_partial, args.output_format)
    \o ResumeArgs(args.session_id)
    \o PairArgs("--workspace", cfg.workspace)
    \o PairArgs("--model", cfg.model)
    \o FlagArgs("-f", cfg.force_approve)
    \o FlagArgs("--approve-mcps", cfg.approve_mcps)
    \o PairArgs("--api-key", cfg.api_key)
    \o HeaderArgs(cfg.headers)
    \o PairArgs("--mode", args.mode)
    \o PromptArgs(args.prompt)

\* One call of _build_command on a configuration and arguments drawn from
\* Configs and BuildArgs.
BuildInit ==
    /\ StreamInit
    /\ QueryIdle
    /\ SessionIdle
    /\ DecodeIdle
    /\ AsyncIdle
    /\ ExtraIdle
    /\ config \in Configs
    /\ cmdArgs \in BuildArgs
    /\ cmd = <<>>
    /\ ncalls = 0
    /\ procs = <<>>
    /\ launch = NoLaunch

BuildCommand ==
    /\ cmd = <<>>
    /\ cmd' = build_command(config, cmdArgs)
    /\ UNCHANGED <<config, cmdArgs, ncalls, procs, launch>>
    /\ UNCHANGED <<vars, queryVars, sessionVars, decodeVars, asyncVars, extraVars>>

BuildNext == BuildCommand

BuildSpec == BuildInit /\ [][BuildNext]_<<vars, otherVars>>

\* the list has been built
Built == cmd # <<>>

\* the list has the element flag; it has flag followed by value
Has(flag) == \E i \in DOMAIN cmd : cmd[i] = flag
HasPair(flag, value) ==
    \E i \in DOMAIN cmd : i < Len(cmd) /\ cmd[i] = flag /\ cmd[i + 1] = value

\* C27: the list has --stream-partial-output exactly when the output format is
\* stream-json and stream_partial is true, for every configuration, session_id
\* and mode; with stream_partial true and the format json it has not.
C27_PartialOnlyWhenStreaming ==
    Built =>
        /\ (Has("--stream-partial-output") <=>
               cmdArgs.stream_partial /\ cmdArgs.output_format = "stream-json")
        /\ (cmdArgs.output_format = "json" => ~Has("--stream-partial-output"))

\* C27 witness: a list built with stream_partial true, the format json, a
\* session_id, a mode and every field of the configuration set.
C27_Witness ==
    /\ Built
    /\ cmdArgs.stream_partial
    /\ cmdArgs.output_format = "json"
    /\ cmdArgs.session_id = "s0"
    /\ cmdArgs.mode = "plan"
    /\ config.force_approve
    /\ config.headers = <<"h2", "h1">>
    /\ cmd[Len(cmd)] = "plan"

\* the positions of the -H flags
HeaderFlags == {i \in DOMAIN cmd : cmd[i] = "-H"}

\* the number of elements of an optional pair, of an optional flag
PairLen(value) == IF value \in {None, ""} THEN 0 ELSE 2
FlagLen(value) == IF value THEN 1 ELSE 0

\* C28: every list starts with the executable, --print, --output-format and
\* the format; it has the resume pair exactly when a non-empty session_id is
\* given, the workspace, model and api-key pairs exactly when set, -f and
\* --approve-mcps exactly when true, one -H pair per header in the order of the
\* configuration, the mode pair exactly when a mode is given, and nothing else;
\* without session_id and with the default configuration and arguments it is
\* [agent, --print, --output-format, json].
C28_ArgumentList ==
    Built =>
        /\ cmd[1] = config.agent_binary
        /\ cmd[2] = "--print"
        /\ cmd[3] = "--output-format"
        /\ cmd[4] = cmdArgs.output_format
        /\ (Has("--resume") <=> cmdArgs.session_id \notin {None, ""})
        /\ (Has("--resume") => HasPair("--resume", cmdArgs.session_id))
        /\ (Has("--workspace") <=> config.workspace \notin {None, ""})
        /\ (Has("--workspace") => HasPair("--workspace", config.workspace))
        /\ (Has("--model") <=> config.model # None)
        /\ (Has("--model") => HasPair("--model", config.model))
        /\ (Has("--api-key") <=> config.api_key # None)
        /\ (Has("--api-key") => HasPair("--api-key", config.api_key))
        /\ (Has("-f") <=> config.force_approve)
        /\ (Has("--approve-mcps") <=> config.approve_mcps)
        /\ Cardinality(HeaderFlags) = Len(config.headers)
        /\ \A i \in HeaderFlags :
              /\ i < Len(cmd)
              /\ cmd[i + 1] =
                     config.headers[Cardinality({j \in HeaderFlags : j <= i})]
        /\ (Has("--mode") <=> cmdArgs.mode \notin {None, ""})
        /\ (Has("--mode") => HasPair("--mode", cmdArgs.mode))
        /\ Len(cmd) =
               4 + PairLen(cmdArgs.session_id) + PairLen(config.workspace)
                 + PairLen(config.model) + PairLen(config.api_key)
                 + FlagLen(config.force_approve) + FlagLen(config.approve_mcps)
                 + 2 * Len(config.headers) + PairLen(cmdArgs.mode)
                 + FlagLen(cmdArgs.stream_partial
                           /\ cmdArgs.output_format = "stream-json")
        /\ (/\ config = DefaultConfig
            /\ cmdArgs.session_id = None
            /\ cmdArgs.mode = None
            /\ cmdArgs.output_format = "json"
            /\ ~cmdArgs.stream_partial
            => cmd = <<"agent", "--print", "--output-format", "json">>)

\* C28 witness: the list built without session_id from the default
\* configuration and arguments.
C28_Witness ==
    /\ Built
    /\ config = DefaultConfig
    /\ cmdArgs.session_id = None
    /\ cmdArgs.mode = None
    /\ cmdArgs.output_format = "json"
    /\ ~cmdArgs.stream_partial
    /\ Len(cmd) = 4


\* ================================== CursorAgentClient.query and query_stream
\* The client is called at most MaxCalls times.
MaxCalls == 2

\* What the process of a query can do, one run of each kind: the launch fails,
\* the timeout expires, a non-zero exit, output that is not JSON, a payload.
ClientRuns ==
    {run \in Runs :
        \/ run.kind = "raises"
        \/ run.kind = "completed" /\ run.returncode = 1 /\ run.stdout = ""
                                  /\ run.stderr = "boom"
        \/ run.kind = "completed" /\ run.returncode = 0 /\ run.stderr = ""
              /\ run.stdout \in {"  oops  ", PayloadOk}}

\* the configurations of the clients that are called: every combination of
\* workspace, force_approve, api_key and headers set or not
ClientConfigs ==
    {cfg \in Configs :
        /\ cfg.workspace \in {None, "/w"}
        /\ cfg.model = None
        /\ ~cfg.approve_mcps
        /\ cfg.headers \in {<<>>, <<"h2", "h1">>}}

\* the kind of outcome a run is
Outcome(run) ==
    IF run.kind = "raises" THEN run.exc
    ELSE IF run.returncode # 0 THEN "non-zero exit"
    ELSE IF run.stdout = PayloadOk THEN "payload" ELSE "malformed"

\* How often the call launches a process: query has one subprocess.run,
\* query_stream one subprocess.Popen, neither in a loop or in a handler.
LaunchCount_retry(outcome) ==
    IF outcome \in {"FileNotFoundError", "TimeoutExpired"} THEN 2 ELSE 1

LaunchCount(outcome) == 1

\* the processes launched so far
RECURSIVE Launched(_)
Launched(ps) == IF ps = <<>> THEN 0 ELSE Len(Head(ps)) + Launched(Tail(ps))

\* the n processes launched next, numbered in the order of their launch
NewProcs(ps, n) == [i \in 1..n |-> Launched(ps) + i]

\* A client of some configuration, not called yet.
ClientInit ==
    /\ StreamInit
    /\ QueryIdle
    /\ SessionIdle
    /\ DecodeIdle
    /\ AsyncIdle
    /\ ExtraIdle
    /\ config \in ClientConfigs
    /\ cmdArgs = NoArgs
    /\ cmd = <<>>
    /\ ncalls = 0
    /\ procs = <<>>
    /\ launch = NoLaunch

\* client.query(prompt, session_id, mode=mode) when subprocess.run does `run`
ClientQuery(prompt, session_id, mode, run) ==
    /\ ncalls < MaxCalls
    /\ LET args == [prompt |-> prompt, session_id |-> session_id,
                    output_format |-> "json", stream_partial |-> FALSE,
                    mode |-> mode]
       IN  /\ cmdArgs' = args
           /\ cmd' = build_command(config, args)
           /\ launch' = [via |-> "run", argv |-> build_command(config, args),
                         stdin |-> prompt, outcome |-> Outcome(run),
                         ops |-> <<"_build_command", "run">>]
    /\ ncalls' = ncalls + 1
    /\ procs' = Append(procs, NewProcs(procs, LaunchCount(Outcome(run))))
    /\ UNCHANGED config
    /\ UNCHANGED <<vars, queryVars, sessionVars, decodeVars, asyncVars, extraVars>>

\* What query_stream does with the process, in order, up to its return (or to
\* the exception of Popen): it starts it, writes the prompt to its input, closes
\* the input and returns the StreamingResponse; it reads nothing and does not
\* wait.
StreamOps_eager(spawned) ==
    IF spawned
    THEN <<"_build_command", "Popen", "stdin.write", "stdin.close", "readline",
           "return">>
    ELSE <<"_build_command", "Popen", "raise">>

StreamOps(spawned) ==
    IF spawned
    THEN <<"_build_command", "Popen", "stdin.write", "stdin.close", "return">>
    ELSE <<"_build_command", "Popen", "raise">>

\* client.query_stream(prompt, session_id, stream_partial, mode): Popen spawns
\* the process, and the prompt is written to its input, or Popen raises.
ClientQueryStream(prompt, session_id, stream_partial, mode, spawned) ==
    /\ ncalls < MaxCalls
    /\ LET args == [prompt |-> prompt, session_id |-> session_id,
                    output_format |-> "stream-json",
                    stream_partial |-> stream_partial, mode |-> mode]
           outcome == IF spawned THEN "running" ELSE "FileNotFoundError"
       IN  /\ cmdArgs' = args
           /\ cmd' = build_command(config, args)
           /\ launch' = [via |-> "Popen", argv |-> build_command(config, args),
                         stdin |-> IF spawned THEN prompt ELSE "",
                         outcome |-> outcome, ops |-> StreamOps(spawned)]
           /\ procs' = Append(procs, NewProcs(procs, LaunchCount(outcome)))
    /\ ncalls' = ncalls + 1
    /\ UNCHANGED config
    /\ UNCHANGED <<vars, queryVars, sessionVars, decodeVars, asyncVars, extraVars>>

\* whether an operation is among those made on the process so far
Did(op) == \E n \in DOMAIN launch.ops : launch.ops[n] = op

\* The consumer pulls the first event of the stream query_stream returned:
\* __iter__ starts and reads a line of the output of the process.
StreamPull ==
    /\ launch.via = "Popen"
    /\ launch.outcome = "running"
    /\ ~Did("next")
    /\ launch' = [launch EXCEPT !.ops = @ \o <<"next", "readline">>]
    /\ UNCHANGED <<config, cmdArgs, cmd, ncalls, procs>>
    /\ UNCHANGED <<vars, queryVars, sessionVars, decodeVars, asyncVars, extraVars>>

\* The stream of the last query_stream ends: drained or its iteration raised,
\* once it is iterated, or cancelled. Neither __iter__ nor cancel launches
\* anything.
StreamEnds(how) ==
    /\ launch.via = "Popen"
    /\ launch.outcome = "running"
    /\ how \in {"drained", "raised"} => Did("next")
    /\ launch' = [launch EXCEPT !.outcome = how]
    /\ UNCHANGED <<config, cmdArgs, cmd, ncalls, procs>>
    /\ UNCHANGED <<vars, queryVars, sessionVars, decodeVars, asyncVars, extraVars>>

StreamEndings == {"drained", "cancelled", "raised"}

ClientNext ==
    \/ \E prompt \in Prompts, session_id \in SessionIdArgs, mode \in Modes,
          run \in ClientRuns : ClientQuery(prompt, session_id, mode, run)
    \/ \E prompt \in Prompts, session_id \in SessionIdArgs,
          stream_partial \in BOOLEAN, mode \in Modes, spawned \in BOOLEAN :
          ClientQueryStream(prompt, session_id, stream_partial, mode, spawned)
    \/ StreamPull
    \/ \E how \in StreamEndings : StreamEnds(how)

ClientSpec == ClientInit /\ [][ClientNext]_<<vars, otherVars>>

\* C22: every call of query and of query_stream launches one process,
\* whatever comes of it (the launch fails, the timeout expires, a non-zero
\* exit, malformed output, the stream is cancelled): there are as many launches
\* as calls, and no process belongs to two calls.
C22_OneProcessPerCall ==
    /\ Len(procs) = ncalls
    /\ \A k \in DOMAIN procs : Len(procs[k]) = 1
    /\ \A j, k \in DOMAIN procs :
          j # k => \A a \in DOMAIN procs[j], b \in DOMAIN procs[k] :
                      procs[j][a] # procs[k][b]
    /\ Launched(procs) = ncalls

\* C22 witness: the second of two calls was a query whose timeout expired; two
\* processes were launched, one per call.
C22_Witness ==
    /\ ncalls = 2
    /\ launch.via = "run"
    /\ launch.outcome = "TimeoutExpired"
    /\ procs = <<(<<1>>), (<<2>>)>>

\* C29: the argument list of a launch is the built list and has no element
\* that is the prompt; the prompt is what the process gets on its input; and a
\* call that differs from the one before in the prompt only launches with the
\* same argument list.
C29_PromptNotInArgv ==
    [][ ncalls' = ncalls + 1 =>
          /\ launch'.argv = cmd'
          /\ \A i \in DOMAIN launch'.argv : launch'.argv[i] \notin {"p1", "p2"}
          /\ (launch'.outcome # "FileNotFoundError" =>
                 launch'.stdin = cmdArgs'.prompt)
          /\ (/\ ncalls >= 1
              /\ cmdArgs'.prompt # cmdArgs.prompt
              /\ [cmdArgs' EXCEPT !.prompt = cmdArgs.prompt] = cmdArgs
              => cmd' = cmd)
      ]_<<vars, otherVars>>

\* C29 witness: the second call is a query_stream with prompt p2 under a
\* resumed session and a mode; its process runs, with p2 on its input.
C29_Witness ==
    /\ ncalls = 2
    /\ launch.via = "Popen"
    /\ launch.outcome = "running"
    /\ launch.stdin = "p2"
    /\ cmdArgs.prompt = "p2"
    /\ cmdArgs.session_id = "s0"
    /\ cmdArgs.mode = "plan"
    /\ launch.argv = cmd


\* ==================================================== AsyncCursorAgentClient
\* ThreadPoolExecutor(max_workers=4)
max_workers == 4

\* The client's methods are awaited at most MaxSubmits times.
MaxSubmits == 5

\* the units a worker thread is executing; the processes alive on behalf of the
\* client: those of the units at work and those left behind
Working == working["query"] + working["query_stream"]
Alive == Working + orphans

\* An AsyncCursorAgentClient, nothing submitted yet.
AsyncInit ==
    /\ StreamInit
    /\ QueryIdle
    /\ SessionIdle
    /\ DecodeIdle
    /\ ClientIdle
    /\ ExtraIdle
    /\ nsubmit = 0
    /\ pending = <<>>
    /\ working = [k \in UnitKinds |-> 0]
    /\ orphans = 0

\* `await client.query(...)` or `await client.query_stream(...)`:
\* loop.run_in_executor(self._executor, unit) puts the unit in the work queue
Submit(kind) ==
    /\ nsubmit < MaxSubmits
    /\ nsubmit' = nsubmit + 1
    /\ pending' = Append(pending, kind)
    /\ UNCHANGED <<working, orphans>>
    /\ UNCHANGED <<vars, queryVars, sessionVars, decodeVars, clientVars, extraVars>>

\* A worker thread that is free takes the next unit of the queue; there are
\* max_workers threads. The unit calls the synchronous client, which launches
\* the process.
WorkerStart ==
    /\ pending # <<>>
    /\ Working < max_workers
    /\ pending' = Tail(pending)
    /\ working' = [working EXCEPT ![Head(pending)] = @ + 1]
    /\ UNCHANGED <<nsubmit, orphans>>
    /\ UNCHANGED <<vars, queryVars, sessionVars, decodeVars, clientVars, extraVars>>

\* A query unit ends: subprocess.run has returned, or has killed the process
\* on the timeout and raised; either way the process has exited.
QueryReturns ==
    /\ working["query"] > 0
    /\ working' = [working EXCEPT !["query"] = @ - 1]
    /\ UNCHANGED <<nsubmit, pending, orphans>>
    /\ UNCHANGED <<vars, queryVars, sessionVars, decodeVars, clientVars, extraVars>>

\* A query_stream unit ends with its list of events: the loop of _stream met the
\* end of the output and __iter__ waited on the process.
StreamDrained ==
    /\ working["query_stream"] > 0
    /\ working' = [working EXCEPT !["query_stream"] = @ - 1]
    /\ UNCHANGED <<nsubmit, pending, orphans>>
    /\ UNCHANGED <<vars, queryVars, sessionVars, decodeVars, clientVars, extraVars>>

\* A query_stream unit ends by an exception inside the loop of _stream (the
\* callback raises, or the decoder does): the loop is left with no cancel and no
\* wait, and the process goes on running.
StreamRaises ==
    /\ working["query_stream"] > 0
    /\ working' = [working EXCEPT !["query_stream"] = @ - 1]
    /\ orphans' = orphans + 1
    /\ UNCHANGED <<nsubmit, pending>>
    /\ UNCHANGED <<vars, queryVars, sessionVars, decodeVars, clientVars, extraVars>>

\* a process left behind exits on its own
OrphanExits ==
    /\ orphans > 0
    /\ orphans' = orphans - 1
    /\ UNCHANGED <<nsubmit, pending, working>>
    /\ UNCHANGED <<vars, queryVars, sessionVars, decodeVars, clientVars, extraVars>>

AsyncNext ==
    \/ \E kind \in UnitKinds : Submit(kind)
    \/ WorkerStart
    \/ QueryReturns
    \/ StreamDrained
    \/ StreamRaises
    \/ OrphanExits

AsyncSpec == AsyncInit /\ [][AsyncNext]_<<vars, otherVars>>

\* C30: at no time are more than max_workers units executing, nor more than
\* max_workers processes alive on behalf of the client.
C30_PoolCapsProcesses ==
    /\ Working <= max_workers
    /\ Alive <= max_workers

\* ============================================================ collect_text
\* The events argument has at most MaxCollect events.
MaxCollect == 3

\* an event as collect_text reads it: its type and its text
CollectEvent(type, text) == [type |-> type, text |-> text]

\* The events collect_text is applied to: reasoning and answer increments with
\* and without text, a complete answer, success outcomes with and without text.
CollectEvents ==
    {CollectEvent("thinking:delta", "Hmm"),
     CollectEvent("thinking:delta", ""),
     CollectEvent("assistant:delta", "Hi"),
     CollectEvent("assistant:delta", None),
     CollectEvent("assistant", "Hi there"),
     CollectEvent("result:success", "The answer is one hundred."),
     CollectEvent("result:success", None)}

\* the sequences over S of length at most n
RECURSIVE SeqsUpTo(_, _)
SeqsUpTo(S, n) ==
    IF n = 0 THEN {<<>>}
    ELSE SeqsUpTo(S, n - 1)
         \cup {Append(q, x) : q \in {r \in SeqsUpTo(S, n - 1) : Len(r) = n - 1},
                              x \in S}

\* "".join(parts)
RECURSIVE join(_)
join(parts) == IF parts = <<>> THEN "" ELSE Head(parts) \o join(Tail(parts))

\* f"[thinking: {event.text}]"
ThinkingPart(text) == "[thinking: " \o text \o "]"

\* What one turn of the loop appends to parts: the text of an answer increment,
\* the bracketed text of a reasoning increment when include_thinking is set.
Parts_thinking(event, include_thinking) ==
    IF event.type = "assistant:delta" /\ Truthy(event.text)
    THEN <<event.text>>
    ELSE IF event.type = "thinking:delta" /\ Truthy(event.text)
    THEN <<ThinkingPart(event.text)>>
    ELSE <<>>

Parts(event, include_thinking) ==
    IF event.type = "assistant:delta" /\ Truthy(event.text)
    THEN <<event.text>>
    ELSE IF event.type = "thinking:delta" /\ include_thinking
            /\ Truthy(event.text)
    THEN <<ThinkingPart(event.text)>>
    ELSE <<>>

\* `if not parts and event.text: return event.text` at a success outcome
ReturnsResult(event, parts) ==
    event.type = "result:success" /\ parts = <<>> /\ Truthy(event.text)

\* the loop of collect_text over the events left, with the parts so far
RECURSIVE CollectLoop(_, _, _)
CollectLoop(evs, parts, include_thinking) ==
    IF evs = <<>> THEN join(parts)
    ELSE IF ReturnsResult(Head(evs), parts) THEN Head(evs).text
    ELSE CollectLoop(Tail(evs), parts \o Parts(Head(evs), include_thinking),
                     include_thinking)

collect_text(evs, include_thinking) == CollectLoop(evs, <<>>, include_thinking)

\* A list of events, collect_text not yet applied to it.
CollectInit ==
    /\ StreamInit
    /\ QueryIdle
    /\ SessionIdle
    /\ DecodeIdle
    /\ ClientIdle
    /\ AsyncIdle
    /\ RaceIdle
    /\ PoolIdle
    /\ CallbackIdle
    /\ AsendIdle
    /\ cevents \in SeqsUpTo(CollectEvents, MaxCollect)
    /\ ctext = [include_thinking \in BOOLEAN |-> NotCalled]

\* collect_text(events, include_thinking=include_thinking)
CollectText(include_thinking) ==
    /\ ctext[include_thinking] = NotCalled
    /\ ctext' = [ctext EXCEPT ![include_thinking] =
                                  collect_text(cevents, include_thinking)]
    /\ UNCHANGED cevents
    /\ UNCHANGED <<vars, queryVars, sessionVars, decodeVars, clientVars,
                   asyncVars, raceVars, poolVars, callbackVars, asendVars>>

CollectNext == \E include_thinking \in BOOLEAN : CollectText(include_thinking)

CollectSpec == CollectInit /\ [][CollectNext]_<<vars, otherVars>>

\* what the specification has an event contribute to the text
Contribution(event, included) ==
    IF event.text \in {None, ""} THEN ""
    ELSE IF event.type = "assistant:delta" THEN event.text
    ELSE IF event.type = "thinking:delta" /\ included
    THEN "[thinking: " \o event.text \o "]"
    ELSE ""

\* the contributions of the first n events, concatenated in order
RECURSIVE Concatenation(_, _, _)
Concatenation(evs, n, included) ==
    IF n = 0 THEN ""
    ELSE Concatenation(evs, n - 1, included) \o Contribution(evs[n], included)

\* the success outcomes with text reached while nothing has been collected
Fallbacks(evs, included) ==
    {k \in DOMAIN evs :
        /\ evs[k].type = "result:success"
        /\ evs[k].text \notin {None, ""}
        /\ Concatenation(evs, k - 1, included) = ""}

Reasoned == <<CollectEvent("thinking:delta", "Hmm"),
              CollectEvent("assistant:delta", "Hi")>>

\* C33: collect_text returns the in-order concatenation of the non-empty texts
\* of the answer increments, each non-empty reasoning increment inserted as
\* "[thinking: <text>]" only when reasoning is included; complete answers and
\* events without text contribute nothing; the text of the first success
\* outcome reached while nothing has been collected is returned instead; and
\* [reasoning("Hmm"), answer-increment("Hi")] gives "Hi" and "[thinking: Hmm]Hi".
C33_CollectText ==
    \A included \in BOOLEAN :
       ctext[included] # NotCalled =>
          /\ ctext[included] =
                IF Fallbacks(cevents, included) # {}
                THEN cevents[CHOOSE k \in Fallbacks(cevents, included) :
                        \A j \in Fallbacks(cevents, included) : k <= j].text
                ELSE Concatenation(cevents, Len(cevents), included)
          /\ cevents = Reasoned =>
                ctext[included] = (IF included THEN "[thinking: Hmm]Hi" ELSE "Hi")

\* C33 witness: the scenario's list, collected both ways.
C33_Witness ==
    /\ cevents = Reasoned
    /\ ctext[FALSE] = "Hi"
    /\ ctext[TRUE] = "[thinking: Hmm]Hi"

\* C34: for every list of events, the text collected with reasoning included
\* is at least as long as the text collected with reasoning excluded.
C34_IncludedAtLeastAsLong ==
    (ctext[TRUE] # NotCalled /\ ctext[FALSE] # NotCalled) =>
        Len(ctext[TRUE]) >= Len(ctext[FALSE])

\* ============================== __iter__ and cancel() on two threads
\* One thread iterates the stream (`for event in stream`) while another calls
\* cancel(). The iterating thread is at "loop" (about to read a line), "check"
\* (`if self._cancelled`), "decode" (strip and _parse_event), "append"
\* (self._events.append), "yield", "consumer" (the loop body of the consumer),
\* "done" or "raised". Nothing orders the steps of the two threads.
raceRest == <<queryVars, sessionVars, decodeVars, clientVars, asyncVars,
              collectVars, poolVars, callbackVars, asendVars>>

\* the event the iterating thread holds
HeldEvent == [data |-> parse_event(strip(iline)).data]

\* The consumer thread has just entered its for loop over a fresh stream.
RaceInit ==
    /\ StreamInit
    /\ QueryIdle
    /\ SessionIdle
    /\ DecodeIdle
    /\ ClientIdle
    /\ AsyncIdle
    /\ CollectIdle
    /\ PoolIdle
    /\ CallbackIdle
    /\ AsendIdle
    /\ ipc = "loop"
    /\ iline = ""

\* `for line in self._process.stdout`: the next line, once there is one
RaceRead ==
    /\ ipc = "loop"
    /\ pipe # <<>>
    /\ iline' = pipe[1]
    /\ nread' = nread + 1
    /\ ipc' = "check"
    /\ UNCHANGED <<procVars, plog, _cancelled, _events, gen, active, delivered,
                   scope, ncancel, sigArg, atCancel>>
    /\ UNCHANGED raceRest

\* `if self._cancelled: break`, and after the loop no wait on a cancelled stream
RaceCheck ==
    /\ ipc = "check"
    /\ ipc' = (IF IterOutcome(iline) = "break" THEN "done" ELSE "decode")
    /\ UNCHANGED <<iline, vars>>
    /\ UNCHANGED raceRest

\* `line = line.strip(); if line: event = self._parse_event(line); if event:`
RaceDecode ==
    /\ ipc = "decode"
    /\ ipc' = CASE LineOutcome(iline) = "skip"  -> "loop"
                [] LineOutcome(iline) = "raise" -> "raised"
                [] OTHER                        -> "append"
    /\ UNCHANGED <<iline, vars>>
    /\ UNCHANGED raceRest

\* self._events.append(event)
RaceAppend ==
    /\ ipc = "append"
    /\ _events' = Appended(_events, HeldEvent)
    /\ ipc' = "yield"
    /\ UNCHANGED <<iline, procVars, nread, plog, _cancelled, gen, active,
                   delivered, scope, ncancel, sigArg, atCancel>>
    /\ UNCHANGED raceRest

\* `yield event`: the consumer's loop body receives the event
RaceYield ==
    /\ ipc = "yield"
    /\ delivered' = Append(delivered, HeldEvent)
    /\ ipc' = "consumer"
    /\ UNCHANGED <<iline, procVars, nread, plog, _cancelled, _events, gen,
                   active, scope, ncancel, sigArg, atCancel>>
    /\ UNCHANGED raceRest

\* the consumer's loop body ends and the for loop asks for the next event
RacePull ==
    /\ ipc = "consumer"
    /\ ipc' = "loop"
    /\ UNCHANGED <<iline, vars>>
    /\ UNCHANGED raceRest

\* the end of the output: `if not self._cancelled: self._process.wait()`
RaceEof ==
    /\ ipc = "loop"
    /\ pipe = <<>>
    /\ stdoutClosed
    /\ IF EndWaits
       THEN /\ procState' = "reaped"
            /\ exitCause' = (IF procState = "running" THEN "self" ELSE exitCause)
            /\ plog' = Append(plog, LogWait)
       ELSE UNCHANGED <<procState, exitCause, plog>>
    /\ ipc' = "done"
    /\ UNCHANGED <<iline, stdoutClosed, written, nread, _cancelled, _events, gen,
                   active, delivered, scope, ncancel, sigArg, atCancel>>
    /\ UNCHANGED raceRest

\* the other thread calls stream.cancel(signal), wherever the iterating one is
RaceCancel(signal) ==
    /\ ncancel < MaxCancels
    /\ ncancel' = ncancel + 1
    /\ sigArg' = signal
    /\ CancelBody(signal)
    /\ UNCHANGED <<written, iterVars, scope>>
    /\ UNCHANGED <<ipc, iline>>
    /\ UNCHANGED raceRest

RaceNext ==
    \/ \E line \in Lines : ProcWrite(line)
    \/ ProcClose
    \/ ProcExit
    \/ RaceRead
    \/ RaceCheck
    \/ RaceDecode
    \/ RaceAppend
    \/ RaceYield
    \/ RacePull
    \/ RaceEof
    \/ \E signal \in Signals : RaceCancel(signal)

RaceSpec == RaceInit /\ [][RaceNext]_<<vars, otherVars>>

\* C36: once cancel() has set the cancelled flag, no event is appended to
\* _events and none is delivered to the consumer, whatever the interleaving of
\* the cancelling thread with the steps of the iterating one.
C36_NothingAfterFlag ==
    [][ _cancelled => (_events' = _events /\ delivered' = delivered)
      ]_<<vars, otherVars>>

\* ================================= the units of one AsyncCursorAgentClient
\* Each `await client.query(...)` or `await client.query_stream(...)` is a unit
\* of work handed to the executor; the units are numbered in the order they are
\* handed over (at most MaxSubmits of them). A unit is "queued", "working" (a
\* worker thread is inside the synchronous client), "abandoned" (working, its
\* awaiting task cancelled), "done" or "cancelled".
poolRest == <<vars, queryVars, sessionVars, decodeVars, clientVars, asyncVars,
              raceVars, collectVars, callbackVars, asendVars>>

\* nothing awaited yet
NoResult == [from |-> 0, outcome |-> "none"]

\* the units a worker thread is executing
Busy == {i \in DOMAIN ustate : ustate[i].at \in {"working", "abandoned"}}

\* how the synchronous call of a unit can end: query with a payload, on its
\* timeout or on a non-zero exit; _stream with the list of events or by an
\* exception raised in its loop
UnitOutcomes(kind) ==
    IF kind = "query" THEN {"payload", "TimeoutExpired", "non-zero exit"}
    ELSE {"drained", "raised"}

\* subprocess.run and subprocess.Popen start a new process at every call
Spawned_shared(ps) == 1

Spawned(ps) == Len(ps) + 1

\* the work queue once a worker has taken its first item
Dequeued_dropped(q) == <<>>

Dequeued(q) == Tail(q)

\* ThreadPoolExecutor(max_workers=4): a thread is free to take work
FreeWorker == Cardinality(Busy) < max_workers

\* An adapter that has been constructed and given no work.
PoolInit ==
    /\ StreamInit
    /\ QueryIdle
    /\ SessionIdle
    /\ DecodeIdle
    /\ ClientIdle
    /\ AsyncIdle
    /\ RaceIdle
    /\ CollectIdle
    /\ CallbackIdle
    /\ AsendIdle
    /\ ustate = <<>>
    /\ uproc = <<>>
    /\ uret = <<>>
    /\ queue = <<>>
    /\ exits = <<>>

\* loop.run_in_executor(self._executor, unit): the unit joins the work queue.
\* `waited` records that no worker was free at that time.
PoolSubmit(kind) ==
    /\ Len(ustate) < MaxSubmits
    /\ ustate' = Append(ustate, [kind |-> kind, at |-> "queued",
                                 waited |-> ~FreeWorker])
    /\ uproc' = Append(uproc, 0)
    /\ uret' = Append(uret, NoResult)
    /\ queue' = Append(queue, Len(ustate) + 1)
    /\ UNCHANGED exits
    /\ UNCHANGED poolRest

\* A free worker thread takes the first unit of the queue and calls the
\* synchronous client, which launches the unit's process.
PoolStart ==
    /\ queue # <<>>
    /\ FreeWorker
    /\ LET i == Head(queue)
       IN  /\ ustate' = [ustate EXCEPT ![i].at = "working"]
           /\ uproc' = [uproc EXCEPT ![i] = Spawned(exits)]
    /\ exits' = Append(exits, "running")
    /\ queue' = Dequeued(queue)
    /\ UNCHANGED uret
    /\ UNCHANGED poolRest

\* The synchronous call of unit i ends and its worker is free again. A query
\* ends when its process has exited (subprocess.run kills it on the timeout);
\* _stream ends at the end of the output, after the wait on the process, or
\* leaves its process running when its loop raises. The await gets the Result
\* unless the awaiting task was cancelled.
PoolFinish(i, outcome) ==
    /\ i \in Busy
    /\ outcome \in UnitOutcomes(ustate[i].kind)
    /\ exits' = [exits EXCEPT ![uproc[i]] =
                    IF outcome = "raised" THEN "running" ELSE outcome]
    /\ IF ustate[i].at = "working"
       THEN /\ ustate' = [ustate EXCEPT ![i].at = "done"]
            /\ uret' = [uret EXCEPT ![i] = [from |-> uproc[i],
                                            outcome |-> outcome]]
       ELSE /\ ustate' = [ustate EXCEPT ![i].at = "cancelled"]
            /\ UNCHANGED uret
    /\ UNCHANGED <<uproc, queue>>
    /\ UNCHANGED poolRest

\* The task awaiting unit i is cancelled: a queued unit is taken off the queue,
\* a working one goes on in its thread with nobody awaiting it.
PoolCancel(i) ==
    /\ i \in DOMAIN ustate
    /\ ustate[i].at \in {"queued", "working"}
    /\ IF ustate[i].at = "queued"
       THEN /\ ustate' = [ustate EXCEPT ![i].at = "cancelled"]
            /\ queue' = SelectSeq(queue, LAMBDA j : j # i)
       ELSE /\ ustate' = [ustate EXCEPT ![i].at = "abandoned"]
            /\ UNCHANGED queue
    /\ UNCHANGED <<uproc, uret, exits>>
    /\ UNCHANGED poolRest

Units == 1..MaxSubmits

\* At most MaxParallel queries are run in parallel.
MaxParallel == 4

\* parallel queries, some of them cancelled
PoolNext ==
    \/ Len(ustate) < MaxParallel /\ PoolSubmit("query")
    \/ PoolStart
    \/ \E i \in Units, outcome \in UnitOutcomes("query") : PoolFinish(i, outcome)
    \/ \E i \in Units : PoolCancel(i)

PoolSpec == PoolInit /\ [][PoolNext]_<<vars, otherVars>>

\* how the call of a unit ends when its process runs to its exit or to the
\* timeout of the call
Endings(kind) ==
    IF kind = "query" THEN {"payload", "TimeoutExpired"} ELSE {"drained"}

\* units of both kinds, all awaited to their end
PoolLiveNext ==
    \/ \E kind \in UnitKinds : PoolSubmit(kind)
    \/ PoolStart
    \/ \E i \in Units, kind \in UnitKinds :
          \E outcome \in Endings(kind) : PoolFinish(i, outcome)

\* A free worker thread takes queued work, and the blocking call of some
\* working unit returns: its process exits, or is killed on the timeout.
PoolFairness ==
    /\ WF_<<vars, otherVars>>(PoolStart)
    /\ WF_<<vars, otherVars>>(\E i \in Units, kind \in UnitKinds :
                                 \E outcome \in Endings(kind) :
                                    PoolFinish(i, outcome))

PoolLiveSpec ==
    PoolInit /\ [][PoolLiveNext]_<<vars, otherVars>> /\ PoolFairness

\* C31: queries run in parallel are independent. No two units have the same
\* process, the Result of a unit is the one of its own process, and a step
\* that ends or cancels one unit (payload, timeout, failure, cancellation)
\* changes neither the state, the process nor the Result of any other unit.
C31_UnitsIndependent ==
    /\ [](\A i, j \in DOMAIN ustate :
             /\ (i # j /\ uproc[i] # 0) => uproc[i] # uproc[j]
             /\ ustate[i].at = "done" =>
                   /\ uret[i].from = uproc[i]
                   /\ uret[i].outcome = exits[uproc[i]])
    /\ [][ \A i \in DOMAIN ustate :
              (/\ ustate'[i].at # ustate[i].at
               /\ ustate'[i].at \in {"done", "cancelled", "abandoned"}) =>
                 \A j \in DOMAIN ustate \ {i} :
                    /\ ustate'[j] = ustate[j]
                    /\ uproc'[j] = uproc[j]
                    /\ uret'[j] = uret[j]
                    /\ uproc[j] # 0 => exits'[uproc[j]] = exits[uproc[j]]
         ]_<<vars, otherVars>>

\* C31 witness: four queries in parallel; the first timed out, the second was
\* cancelled while it ran, the third failed, and the fourth returned the payload
\* of its own process.
C31_Witness ==
    /\ Len(ustate) = 4
    /\ ustate[1].at = "done" /\ uret[1].outcome = "TimeoutExpired"
    /\ ustate[2].at = "cancelled" /\ uproc[2] = 2
    /\ ustate[3].at = "done" /\ uret[3].outcome = "non-zero exit"
    /\ ustate[4].at = "done" /\ uret[4] = [from |-> 4, outcome |-> "payload"]

\* every unit handed to the executor so far is done and has its Result
AllDone ==
    \A i \in DOMAIN ustate :
       ustate[i].at = "done" /\ uproc[i] # 0 /\ uret[i].from = uproc[i]

\* C40: when every process exits, every unit handed to the executor is
\* eventually done with its Result, also a unit handed over while all
\* max_workers threads were busy (it waits for a thread and then runs): at any
\* time, a time comes at which all units handed over until then are done.
C40_EveryUnitCompletes == []<>AllDone

\* C40 witness: the fifth unit was handed over while four units were working,
\* and is done.
C40_Witness ==
    /\ Len(ustate) = 5
    /\ ustate[5].waited
    /\ ustate[5].at = "done"
    /\ uret[5].from = uproc[5]

\* ======================== AsyncCursorAgentClient.query_stream with callback
\* The stream _stream iterates yields at most MaxStream events.
MaxStream == 3

callbackRest == <<vars, queryVars, sessionVars, decodeVars, clientVars,
                  asyncVars, raceVars, collectVars, poolVars, asendVars>>

\* the events of the stream
StreamedEvents == {[data |-> "{A}"], [data |-> "{B}"]}

\* The callback argument: None, a callable that returns, a callable that
\* raises when it is given the event {B}.
Callbacks == {None, "returns", "raises"}

CallbackRaises(cb, event) == cb = "raises" /\ event = [data |-> "{B}"]

LogPull(event) == [op |-> "pull", event |-> event]
LogCallback(event) == [op |-> "callback", event |-> event]

\* What one turn of the loop of _stream does with the stream and the callback:
\* the event is pulled, and `if callback: callback(event)`.
Turn_twice(cb, event) ==
    IF cb # None THEN <<LogPull(event), LogCallback(event), LogCallback(event)>>
    ELSE <<LogPull(event)>>

Turn(cb, event) ==
    IF cb # None THEN <<LogPull(event), LogCallback(event)>>
    ELSE <<LogPull(event)>>

\* events.append(event)
Accumulated(evs, event) == Append(evs, event)

\* _stream has been started on a stream: `events = []`.
CallbackInit ==
    /\ StreamInit
    /\ QueryIdle
    /\ SessionIdle
    /\ DecodeIdle
    /\ ClientIdle
    /\ AsyncIdle
    /\ RaceIdle
    /\ CollectIdle
    /\ PoolIdle
    /\ AsendIdle
    /\ cbsource \in SeqsUpTo(StreamedEvents, MaxStream)
    /\ callback \in Callbacks
    /\ cbevents = <<>>
    /\ cblog = <<>>
    /\ cbret = NoReturn

\* One turn of `for event in self._sync_client.query_stream(...)`: the next
\* event is pulled, appended to events, and given to the callback if there is
\* one; an exception of the callback ends _stream.
CallbackTurn ==
    /\ cbret.tag = "none"
    /\ cbsource # <<>>
    /\ LET event == Head(cbsource)
       IN  /\ cbevents' = Accumulated(cbevents, event)
           /\ cblog' = cblog \o Turn(callback, event)
           /\ cbret' = IF CallbackRaises(callback, event)
                       THEN [tag |-> "raised", events |-> <<>>]
                       ELSE cbret
    /\ cbsource' = Tail(cbsource)
    /\ UNCHANGED callback
    /\ UNCHANGED callbackRest

\* the stream ends: `return events`
CallbackReturn ==
    /\ cbret.tag = "none"
    /\ cbsource = <<>>
    /\ cbret' = [tag |-> "returned", events |-> cbevents]
    /\ UNCHANGED <<cbsource, callback, cbevents, cblog>>
    /\ UNCHANGED callbackRest

CallbackNext == CallbackTurn \/ CallbackReturn

CallbackSpec == CallbackInit /\ [][CallbackNext]_<<vars, otherVars>>

\* the events of the log entries of one operation, in order
RECURSIVE LogEvents(_, _)
LogEvents(log, op) ==
    IF log = <<>> THEN <<>>
    ELSE IF Head(log).op = op
    THEN <<Head(log).event>> \o LogEvents(Tail(log), op)
    ELSE LogEvents(Tail(log), op)

\* C32: with a callback, every event pulled from the stream is given to the
\* callback once, in the order of arrival and before the next event is pulled;
\* and when the stream ends, the list returned is complete and is the sequence
\* of the events the callback was given.
C32_CallbackPerEvent ==
    callback # None =>
       /\ LogEvents(cblog, "callback") = LogEvents(cblog, "pull")
       /\ \A n \in DOMAIN cblog :
             IF n % 2 = 1 THEN cblog[n].op = "pull"
             ELSE cblog[n].op = "callback" /\ cblog[n].event = cblog[n - 1].event
       /\ cbret.tag = "returned" =>
             /\ cbsource = <<>>
             /\ cbret.events = LogEvents(cblog, "callback")

\* C32 witness: a stream of three events ended; the callback was given {A},
\* {B}, {A}, and that list was returned.
C32_Witness ==
    /\ callback = "returns"
    /\ cbret.tag = "returned"
    /\ cbret.events = <<[data |-> "{A}"], [data |-> "{B}"], [data |-> "{A}"]>>
    /\ LogEvents(cblog, "callback") = cbret.events

\* ================================================ AsyncConversationSession
\* One session object whose send is called by several tasks of one event loop:
\* a call runs up to its await (the token is read and the query is handed to the
\* client), and after the await to its return, each part without interruption.
\* At most MaxSends calls are made.
MaxSends == 3

asendRest == <<stream, callOp, callPrompt, callArg, callRet, observed, vars,
               queryVars, decodeVars, clientVars, asyncVars, raceVars,
               collectVars, poolVars, callbackVars>>

\* What the process of one send can do: time out, and leave a success payload
\* with a token, an error payload with another token, a payload without one.
AsendRuns ==
    {run \in Runs :
        \/ run.kind = "raises" /\ run.exc = "TimeoutExpired"
        \/ run.kind = "completed" /\ run.returncode = 0 /\ run.stderr = ""
              /\ run.stdout \in {PayloadOk, PayloadError, PayloadNoToken}}

\* `session_id=self._session_id`, evaluated when send is called
AsyncResumeToken(session_id) == session_id

\* `if result.session_id: self._session_id = result.session_id`
AsyncStoreToken_first(session_id, result) ==
    IF Truthy(session_id) THEN session_id
    ELSE IF Truthy(result.session_id) THEN result.session_id ELSE session_id

AsyncStoreToken(session_id, result) ==
    IF Truthy(result.session_id) THEN result.session_id ELSE session_id

\* `self._history.append((prompt, result))`
AsyncRecord(history, prompt, result) == Append(history, <<prompt, result>>)

\* AsyncConversationSession(client, session_id)
AsendInit ==
    /\ StreamInit
    /\ QueryIdle
    /\ DecodeIdle
    /\ ClientIdle
    /\ AsyncIdle
    /\ RaceIdle
    /\ CollectIdle
    /\ PoolIdle
    /\ CallbackIdle
    /\ _session_id \in SessionIdArgs
    /\ _history = <<>>
    /\ stream = [made |-> FALSE, events |-> <<>>]
    /\ callOp = "none"
    /\ callPrompt = ""
    /\ callArg = None
    /\ callRet = Pending
    /\ observed = None
    /\ sends = <<>>
    /\ completions = <<>>

\* A task calls session.send(prompt): the call reads the token, hands the query
\* to the client and waits. `seen` is the number of calls that had returned.
AsendStart(prompt) ==
    /\ Len(sends) < MaxSends
    /\ sends' = Append(sends, [at |-> "started", prompt |-> prompt,
                               arg |-> AsyncResumeToken(_session_id),
                               seen |-> Len(completions), result |-> Pending])
    /\ UNCHANGED <<_session_id, _history, completions>>
    /\ UNCHANGED asendRest

\* The query of call i is over, its process having done `run`: the call stores
\* the token, appends to the history and returns.
AsendComplete(i, run) ==
    /\ i \in DOMAIN sends
    /\ sends[i].at = "started"
    /\ LET result == query(sends[i].arg, run)
       IN  /\ _session_id' = AsyncStoreToken(_session_id, result)
           /\ _history' = AsyncRecord(_history, sends[i].prompt, result)
           /\ sends' = [sends EXCEPT ![i].at = "returned", ![i].result = result]
    /\ completions' = Append(completions, i)
    /\ UNCHANGED asendRest

AsendNext ==
    \/ \E prompt \in Prompts : AsendStart(prompt)
    \/ \E i \in 1..MaxSends, run \in AsendRuns : AsendComplete(i, run)

AsendSpec == AsendInit /\ [][AsendNext]_<<vars, otherVars>>

\* the calls that have returned with a non-empty token, as places in completions
Tokened ==
    {k \in DOMAIN completions :
        sends[completions[k]].result.session_id \notin {None, ""}}

\* C39: with overlapping sends on one async session, the history has one entry
\* per call that has returned, in the order of return; calls made before any
\* call returned (more generally, after the same returns) were launched with
\* the same resume token; and the token stored is the non-empty token of the
\* call that returned last with one (the constructor's when there is none).
C39_OverlappingSends ==
    /\ Len(_history) = Len(completions)
    /\ \A k \in DOMAIN completions :
          /\ sends[completions[k]].at = "returned"
          /\ _history[k] = <<sends[completions[k]].prompt,
                             sends[completions[k]].result>>
          /\ \A l \in DOMAIN completions : completions[k] = completions[l] => k = l
    /\ \A i \in DOMAIN sends :
          sends[i].at = "returned" => \E k \in DOMAIN completions : completions[k] = i
    /\ \A i, j \in DOMAIN sends :
          sends[i].seen = sends[j].seen => sends[i].arg = sends[j].arg
    /\ IF Tokened = {}
       THEN sends # <<>> => _session_id = sends[1].arg
       ELSE _session_id =
               sends[completions[CHOOSE k \in Tokened :
                        \A l \in Tokened : l <= k]].result.session_id

\* C39 witness: two sends were called on a session whose token was s0 before
\* either returned; the second returned first with token s2, then the first
\* with token s1: two entries in that order, and the token is s1.
C39_Witness ==
    /\ Len(sends) = 2
    /\ sends[1].seen = 0 /\ sends[2].seen = 0
    /\ sends[1].arg = "s0" /\ sends[2].arg = "s0"
    /\ completions = <<2, 1>>
    /\ Len(_history) = 2
    /\ _history[1][2].session_id = "s2"
    /\ _history[2][2].session_id = "s1"
    /\ _session_id = "s1"

\* ------------------------------------------- the order inside query_stream
\* C35: query_stream starts the process, writes the whole prompt to its input,
\* closes the input and returns the stream, in that order and with nothing
\* else: it returns while the process runs, and no line of the output is read
\* before the consumer pulls the first event.
C35_StreamReturnsAtOnce ==
    /\ [](\A n \in DOMAIN launch.ops :
             launch.ops[n] \in {"readline", "wait"} =>
                \E r, m \in 1..(n - 1) :
                   r < m /\ launch.ops[r] = "return" /\ launch.ops[m] = "next")
    /\ [][ (ncalls' = ncalls + 1 /\ launch'.via = "Popen"
              /\ launch'.outcome # "FileNotFoundError") =>
              /\ launch'.ops = <<"_build_command", "Popen", "stdin.write",
                                 "stdin.close", "return">>
              /\ launch'.stdin = cmdArgs'.prompt
              /\ launch'.outcome = "running"
         ]_<<vars, otherVars>>

\* C35 witness: query_stream("p1") has returned, its process running, and the
\* consumer has then pulled the first event, which read the first line.
C35_Witness ==
    /\ launch.via = "Popen"
    /\ launch.outcome = "running"
    /\ launch.stdin = "p1"
    /\ launch.ops = <<"_build_command", "Popen", "stdin.write", "stdin.close",
                      "return", "next", "readline">>

====
